---------------------------- MODULE Spec2Model ----------------------------
(***************************************************************************)
(* A model of the DateHelper library (src/src/index.ts, utils.ts,          *)
(* constants.ts, error.ts).                                                *)
(*                                                                         *)
(* Representation choices.                                                 *)
(*  - A JavaScript string is a sequence of one-character strings.  Thai    *)
(*    text of constants.ts is written in Latin transliteration, since a    *)
(*    module is ASCII; the tables keep their shape and order.              *)
(*  - A JavaScript value that may be of several types is a tagged record:  *)
(*    Num(n), Str(s), Null, Undefined, NaN.                                *)
(*  - A Date holds milliseconds since the epoch.  That count exceeds the   *)
(*    integers TLC computes with, so an instant is the pair                *)
(*    [day, ms]: the epoch day (UTC) and the millisecond within that day;  *)
(*    instant = day * 86400000 + ms.  All arithmetic on instants is exact. *)
(*  - The host time zone is a fixed offset tz (minutes east of UTC),       *)
(*    chosen at start; daylight-saving transitions are not modelled.       *)
(***************************************************************************)
EXTENDS Integers, Sequences, FiniteSets, TLC

VARIABLES
    tz,            \* host time zone, minutes east of UTC (-getTimezoneOffset())
    CURRENT_MONTH, \* the static DateHelper.CURRENT_MONTH, set when the class loads
    now,           \* the wall clock, an instant
    self,          \* the DateHelper instance under observation
    made,          \* the call that constructed self, with its arguments
    momentLocale,  \* the global locale of the moment library
    input,         \* the caller's arguments, where a behaviour fixes them
    call           \* the last operation called, its arguments and its result

vars == <<tz, CURRENT_MONTH, now, self, made, momentLocale, input, call>>

----------------------------------------------------------------------------
(* JavaScript values *)

Num(n) == [t |-> "number", v |-> n]

Str(s) == [t |-> "string", v |-> s]

Null == [t |-> "null"]

Undefined == [t |-> "undefined"]

NaN == [t |-> "NaN"]

\* isNaN(x) for an x that is already a number
IsNaN(x) == x.t = "NaN"

\* x ?? d
Coalesce(x, d) == IF x.t \in {"null", "undefined"} THEN d ELSE x

Bool(b) == [t |-> "boolean", v |-> b]

\* a Time object {hour, minute}; each field a number or null
TimeObj(h, m) == [t |-> "object", hour |-> h, minute |-> m]

\* if (x)
Truthy(x) ==
    CASE x.t = "boolean" -> x.v
      [] x.t = "string" -> x.v # ""
      [] OTHER -> FALSE

\* x != null
NotNullish(x) == x.t \notin {"null", "undefined"}

Return(v) == [threw |-> FALSE, value |-> v]

Throw(e) == [threw |-> TRUE, error |-> e]

----------------------------------------------------------------------------
(* Strings *)

DigitChars == <<"0", "1", "2", "3", "4", "5", "6", "7", "8", "9">>

IsDigit(c) == \E i \in 1..10 : DigitChars[i] = c

DigitVal(c) == (CHOOSE i \in 1..10 : DigitChars[i] = c) - 1

AllDigits(s) == \A i \in 1..Len(s) : IsDigit(s[i])

\* the characters String.prototype.trim and the Number conversion strip
IsSpace(c) == c = " "

RECURSIVE NatToStr(_)
NatToStr(n) ==
    IF n < 10 THEN <<DigitChars[n + 1]>>
    ELSE NatToStr(n \div 10) \o <<DigitChars[(n % 10) + 1]>>

\* Number.prototype.toString for an integer
NumToStr(n) == IF n < 0 THEN <<"-">> \o NatToStr(-n) ELSE NatToStr(n)

RECURSIVE DigitsToNat(_)
DigitsToNat(s) ==
    IF s = <<>> THEN 0
    ELSE 10 * DigitsToNat(SubSeq(s, 1, Len(s) - 1)) + DigitVal(s[Len(s)])

RECURSIVE TrimLeft(_)
TrimLeft(s) ==
    IF s # <<>> /\ IsSpace(Head(s)) THEN TrimLeft(Tail(s)) ELSE s

RECURSIVE TrimRight(_)
TrimRight(s) ==
    IF s # <<>> /\ IsSpace(s[Len(s)]) THEN TrimRight(SubSeq(s, 1, Len(s) - 1))
    ELSE s

\* The Number conversion of a string (StringToNumber): white space is
\* stripped, the empty string is 0, an optionally signed run of decimal
\* digits is its value.  Exact for strings over digits, sign, space and
\* characters that occur in no numeric literal (":", "/", "a", "x").
StringToNumber(s) ==
    LET b == TrimRight(TrimLeft(s))
    IN  IF b = <<>> THEN Num(0)
        ELSE IF AllDigits(b) THEN Num(DigitsToNat(b))
        ELSE IF Head(b) \in {"-", "+"} /\ Len(b) > 1 /\ AllDigits(Tail(b))
             THEN Num(IF Head(b) = "-" THEN -DigitsToNat(Tail(b))
                      ELSE DigitsToNat(Tail(b)))
        ELSE NaN

\* unary plus: +x
ToNumber(x) ==
    CASE x.t = "number" -> x
      [] x.t = "NaN" -> NaN
      [] x.t = "undefined" -> NaN
      [] x.t = "null" -> Num(0)
      [] x.t = "string" -> StringToNumber(x.v)

\* String(x), as a template literal or Array.prototype.join applies it
JSString(x) ==
    CASE x.t = "number" -> NumToStr(x.v)
      [] x.t = "string" -> x.v
      [] x.t = "NaN" -> <<"N", "a", "N">>

\* String.prototype.split(sep) for a one-character separator
RECURSIVE Split(_, _)
Split(s, sep) ==
    IF \A i \in 1..Len(s) : s[i] # sep THEN <<s>>
    ELSE LET k == CHOOSE i \in 1..Len(s) :
                      s[i] = sep /\ \A j \in 1..(i - 1) : s[j] # sep
         IN  <<SubSeq(s, 1, k - 1)>> \o Split(SubSeq(s, k + 1, Len(s)), sep)

\* element i of an array, undefined past its end (array destructuring)
At(parts, i) == IF i <= Len(parts) THEN Str(parts[i]) ELSE Undefined

\* Array.prototype.join of two elements
Join2(a, b, sep) == JSString(a) \o <<sep>> \o JSString(b)

----------------------------------------------------------------------------
(* constants.ts *)

ONE_DAY_IN_MILLISECONDS == 86400000

EN_MONTHS ==
    << <<"J", "a", "n", "u", "a", "r", "y">>,
       <<"F", "e", "b", "r", "u", "a", "r", "y">>,
       <<"M", "a", "r", "c", "h">>,
       <<"A", "p", "r", "i", "l">>,
       <<"M", "a", "y">>,
       <<"J", "u", "n", "e">>,
       <<"J", "u", "l", "y">>,
       <<"A", "u", "g", "u", "s", "t">>,
       <<"S", "e", "p", "t", "e", "m", "b", "e", "r">>,
       <<"O", "c", "t", "o", "b", "e", "r">>,
       <<"N", "o", "v", "e", "m", "b", "e", "r">>,
       <<"D", "e", "c", "e", "m", "b", "e", "r">> >>

EN_MONTHS_ABBR ==
    << <<"J", "a", "n">>,
       <<"F", "e", "b">>,
       <<"M", "a", "r">>,
       <<"A", "p", "r">>,
       <<"M", "a", "y">>,
       <<"J", "u", "n">>,
       <<"J", "u", "l">>,
       <<"A", "u", "g">>,
       <<"S", "e", "p">>,
       <<"O", "c", "t">>,
       <<"N", "o", "v">>,
       <<"D", "e", "c">> >>

\* th.MONTHS, transliterated
TH_MONTHS ==
    << <<"M", "a", "k", "a", "r", "a", "k", "h", "o", "m">>,
       <<"K", "u", "m", "p", "h", "a", "p", "h", "a", "n">>,
       <<"M", "i", "n", "a", "k", "h", "o", "m">>,
       <<"M", "e", "s", "a", "y", "o", "n">>,
       <<"P", "h", "r", "u", "e", "t", "s", "a", "p", "h", "a", "k", "h", "o", "m">>,
       <<"M", "i", "t", "h", "u", "n", "a", "y", "o", "n">>,
       <<"K", "a", "r", "a", "k", "a", "d", "a", "k", "h", "o", "m">>,
       <<"S", "i", "n", "g", "h", "a", "k", "h", "o", "m">>,
       <<"K", "a", "n", "y", "a", "y", "o", "n">>,
       <<"T", "u", "l", "a", "k", "h", "o", "m">>,
       <<"P", "h", "r", "u", "e", "t", "s", "a", "c", "h", "i", "k", "a", "y", "o", "n">>,
       <<"T", "h", "a", "n", "w", "a", "k", "h", "o", "m">> >>

\* th.MONTHS_ABBR, transliterated
TH_MONTHS_ABBR ==
    << <<"M", "o", ".", "K", "h", "o", ".">>,
       <<"K", "o", ".", "P", "h", "o", ".">>,
       <<"M", "i", ".", "K", "h", "o", ".">>,
       <<"M", "e", ".", "Y", "o", ".">>,
       <<"P", "h", "o", ".", "K", "h", "o", ".">>,
       <<"M", "i", ".", "Y", "o", ".">>,
       <<"K", "o", ".", "K", "h", "o", ".">>,
       <<"S", "o", ".", "K", "h", "o", ".">>,
       <<"K", "o", ".", "Y", "o", ".">>,
       <<"T", "o", ".", "K", "h", "o", ".">>,
       <<"P", "h", "o", ".", "Y", "o", ".">>,
       <<"T", "h", "o", ".", "K", "h", "o", ".">> >>

\* en.timeAgo
EN_justNow == <<"J", "u", "s", "t", " ", "n", "o", "w">>

\* the plural suffix of the en.timeAgo formatters: n > 1 ? "s" : ""
EN_plural(n) == IF n > 1 THEN <<"s">> ELSE <<>>

EN_minute(min) ==
    NumToStr(min) \o <<" ", "m", "i", "n", "u", "t", "e">> \o EN_plural(min)
        \o <<" ", "a", "g", "o">>

EN_hour(hours) ==
    NumToStr(hours) \o <<" ", "h", "o", "u", "r">> \o EN_plural(hours)
        \o <<" ", "a", "g", "o">>

EN_day(days) ==
    NumToStr(days) \o <<" ", "d", "a", "y">> \o EN_plural(days)
        \o <<" ", "a", "g", "o">>

\* th.timeAgo, transliterated
TH_justNow == <<"m", "u", "e", "a", " ", "s", "a", "k", " ", "k", "h", "r", "u">>

TH_minute(min) ==
    NumToStr(min)
        \o <<" ", "n", "a", "t", "h", "i", " ", "t", "h", "i", " ", "l", "a", "e", "o">>

TH_hour(hours) ==
    NumToStr(hours)
        \o <<" ", "c", "h", "u", "a", "m", "o", "n", "g", " ", "t", "h", "i", " ",
             "l", "a", "e", "o">>

TH_day(days) ==
    NumToStr(days)
        \o <<" ", "w", "a", "n", " ", "t", "h", "i", " ", "p", "h", "a", "n", " ",
             "m", "a">>

----------------------------------------------------------------------------
(* The host Date: instants and the local calendar *)

MS_PER_MINUTE == 60000

MS_PER_HOUR == 3600000

MINUTES_PER_DAY == 1440

Instant(day, ms) == [day |-> day, ms |-> ms]

\* the instant `ms` milliseconds after the start of epoch day `day`
Normalise(day, ms) ==
    Instant(day + (ms \div ONE_DAY_IN_MILLISECONDS), ms % ONE_DAY_IN_MILLISECONDS)

\* a.getTime() + delta, for |delta| below 2^31 less one day
AddMs(a, delta) == Normalise(a.day, a.ms + delta)

\* a.getTime() < b.getTime()
Before(a, b) == a.day < b.day \/ (a.day = b.day /\ a.ms < b.ms)

\* the civil date of an epoch day in the proleptic Gregorian calendar
\* (ECMAScript YearFromTime, MonthFromTime, DateFromTime)
CivilFromDays(z0) ==
    LET z == z0 + 719468
        era == z \div 146097
        doe == z - era * 146097
        yoe == (doe - (doe \div 1460) + (doe \div 36524) - (doe \div 146096)) \div 365
        doy == doe - (365 * yoe + (yoe \div 4) - (yoe \div 100))
        mp == (5 * doy + 2) \div 153
        d == doy - ((153 * mp + 2) \div 5) + 1
        m == IF mp < 10 THEN mp + 3 ELSE mp - 9
        y == yoe + era * 400
    IN  [year |-> IF m <= 2 THEN y + 1 ELSE y, month |-> m, day |-> d]

\* the epoch day of a civil date (ECMAScript MakeDay for day 1..31)
DaysFromCivil(y0, m, d) ==
    LET y == IF m <= 2 THEN y0 - 1 ELSE y0
        era == y \div 400
        yoe == y - era * 400
        doy == ((153 * (IF m > 2 THEN m - 3 ELSE m + 9) + 2) \div 5) + d - 1
        doe == yoe * 365 + (yoe \div 4) - (yoe \div 100) + doy
    IN  era * 146097 + doe - 719468

\* LocalTime(t): the instant shifted by the host offset
LocalTime(a) == Normalise(a.day, a.ms + tz * MS_PER_MINUTE)

getFullYear(a) == CivilFromDays(LocalTime(a).day).year

\* 0..11
getMonth(a) == CivilFromDays(LocalTime(a).day).month - 1

getDate(a) == CivilFromDays(LocalTime(a).day).day

getHours(a) == LocalTime(a).ms \div MS_PER_HOUR

getMinutes(a) == (LocalTime(a).ms % MS_PER_HOUR) \div MS_PER_MINUTE

getSeconds(a) == (LocalTime(a).ms % MS_PER_MINUTE) \div 1000

\* -(the host's getTimezoneOffset()), in minutes
getTimezoneOffset == -tz

\* new Date(year, monthIndex, day, hours, minutes): the components are local
\* time; a year 0..99 is taken as 1900 + year; months and days that overflow
\* carry (MakeDay).
NewDate(year, monthIndex, day, hours, minutes) ==
    LET yr == IF 0 <= year /\ year <= 99 THEN 1900 + year ELSE year
        ym == yr + (monthIndex \div 12)
        mn == monthIndex % 12
    IN  Normalise(DaysFromCivil(ym, mn + 1, 1) + day - 1,
                  hours * MS_PER_HOUR + minutes * MS_PER_MINUTE - tz * MS_PER_MINUTE)

----------------------------------------------------------------------------
(* utils.ts *)

\* a padZero that pads the value 10 as well
padZeroOffByOne(num) ==
    IF IsNaN(ToNumber(num)) THEN num
    ELSE IF ToNumber(num).v > 10 THEN num
    ELSE Str(<<"0">> \o JSString(num))

padZero(num) ==
    IF IsNaN(ToNumber(num)) THEN num
    ELSE IF ToNumber(num).v >= 10 THEN num
    ELSE Str(<<"0">> \o JSString(num))

----------------------------------------------------------------------------
(* index.ts: the time-string helpers *)

\* The classes a `new FormatError(...)` expression of index.ts can raise.
\* index.ts does not import FormatError and error.ts does not export it:
\* where error.ts is loaded as a global script the name resolves to the
\* class, and in a module build evaluating the name raises a ReferenceError.
FormatErrorKinds == {"FormatError", "ReferenceError"}

timeStringToTime(timeString) ==
    LET parts == Split(timeString, ":")
        h == At(parts, 1)
        m == At(parts, 2)
        hh == ToNumber(h)
        mm == ToNumber(m)
    IN  IF IsNaN(hh) \/ IsNaN(mm) THEN Throw("FormatError")
        ELSE IF hh.v < 0 \/ hh.v > 23 THEN Throw("FormatError")
        ELSE IF mm.v < 0 \/ mm.v > 59 THEN Throw("FormatError")
        ELSE Return(TimeObj(hh, mm))

timeToTimeString(time) ==
    Join2(padZero(Coalesce(time.hour, Num(0))),
          padZero(Coalesce(time.minute, Num(0))), ":")

----------------------------------------------------------------------------
(* index.ts: the DateHelper class *)

\* a DateHelperConfig; an absent field is Undefined
Config(lang, isUTC, useShortText, useBD, use12HourFormat, showSeconds) ==
    [lang |-> lang, isUTC |-> isUTC, useShortText |-> useShortText,
     useBD |-> useBD, use12HourFormat |-> use12HourFormat,
     showSeconds |-> showSeconds]

\* config = {}
EmptyConfig ==
    Config(Undefined, Undefined, Undefined, Undefined, Undefined, Undefined)

\* Date.parse(s).  The ISO date forms are read as UTC: YYYY is the start of
\* that year, YYYY-MM-DD naming a day of the calendar is midnight of that
\* day; a string of the second form with a month outside 1..12 or a day
\* outside 1..31, and a string no date can be read from, is NaN.  Strings on
\* which engines differ (a day past the end of its month, digit strings of
\* other lengths, forms such as "2024-3-1") are not among the inputs of the
\* constructor.
DateParse(s) ==
    IF Len(s) = 4 /\ AllDigits(s)
    THEN Num(Instant(DaysFromCivil(DigitsToNat(s), 1, 1), 0))
    ELSE IF ~(/\ Len(s) = 10
              /\ AllDigits(SubSeq(s, 1, 4)) /\ s[5] = "-"
              /\ AllDigits(SubSeq(s, 6, 7)) /\ s[8] = "-"
              /\ AllDigits(SubSeq(s, 9, 10)))
    THEN NaN
    ELSE LET y == DigitsToNat(SubSeq(s, 1, 4))
             m == DigitsToNat(SubSeq(s, 6, 7))
             d == DigitsToNat(SubSeq(s, 9, 10))
         IN  IF /\ m \in 1..12
                /\ d \in 1..31
                /\ CivilFromDays(DaysFromCivil(y, m, d)) =
                       [year |-> y, month |-> m, day |-> d]
             THEN Num(Instant(DaysFromCivil(y, m, d), 0))
             ELSE NaN

\* The constructor's first statement: the instant this.date is set to, or
\* the error thrown.  A number argument is Num of an instant; the number a
\* string converts to is a count of milliseconds since the epoch.
ConstructorDate(x) ==
    IF ~NotNullish(x) THEN Return(now)
    ELSE LET ts == ToNumber(x)
         IN  IF IsNaN(ts)
             THEN (LET parsedDate == DateParse(x.v)
                   IN  IF IsNaN(parsedDate) THEN Throw("Error")
                       ELSE Return(parsedDate.v))
             ELSE Return(IF x.t = "string" THEN Normalise(0, ts.v) ELSE ts.v)

\* a constructor that adds the offset for isUTC
NewDateHelperOffsetAdded(x, config) ==
    LET parsed == ConstructorDate(x).value
        offsetInMs == getTimezoneOffset * 60 * 1000
    IN  [date |-> IF Truthy(config.isUTC) THEN AddMs(parsed, offsetInMs)
                  ELSE parsed,
         defaultLang |-> IF Truthy(config.lang) THEN config.lang.v ELSE "en",
         useShortText |-> IF NotNullish(config.useShortText)
                          THEN config.useShortText.v ELSE FALSE,
         useBD |-> IF NotNullish(config.useBD) THEN config.useBD.v ELSE FALSE,
         use12HourFormat |-> IF NotNullish(config.use12HourFormat)
                             THEN config.use12HourFormat.v ELSE FALSE,
         showSeconds |-> IF NotNullish(config.showSeconds)
                         THEN config.showSeconds.v ELSE FALSE]

\* new DateHelper(x, config) where the constructor does not throw
NewDateHelper(x, config) ==
    LET parsed == ConstructorDate(x).value
        offsetInMs == getTimezoneOffset * 60 * 1000
    IN  [date |-> IF Truthy(config.isUTC) THEN AddMs(parsed, -offsetInMs)
                  ELSE parsed,
         defaultLang |-> IF Truthy(config.lang) THEN config.lang.v ELSE "en",
         useShortText |-> IF NotNullish(config.useShortText)
                          THEN config.useShortText.v ELSE FALSE,
         useBD |-> IF NotNullish(config.useBD) THEN config.useBD.v ELSE FALSE,
         use12HourFormat |-> IF NotNullish(config.use12HourFormat)
                             THEN config.use12HourFormat.v ELSE FALSE,
         showSeconds |-> IF NotNullish(config.showSeconds)
                         THEN config.showSeconds.v ELSE FALSE]

\* the constructor's last statement: if defaultLang is "th", moment.locale("th")
LocaleAfterNew(e) == IF e.defaultLang = "th" THEN "th" ELSE momentLocale

toMs(e) == e.date

toDateTuple(e) ==
    <<getFullYear(e.date), getMonth(e.date) + 1, getDate(e.date)>>

toTimeObject(e) == TimeObj(Num(getHours(e.date)), Num(getMinutes(e.date)))

\* Math.round((a - b) / 6e4): the nearest integer, a tie going up.  One day
\* is a whole number of minutes, so the days are rounded apart from the rest.
RoundedMinutesFloor(a, b) ==
    (a.day - b.day) * MINUTES_PER_DAY + ((a.ms - b.ms) \div MS_PER_MINUTE)

RoundedMinutes(a, b) ==
    (a.day - b.day) * MINUTES_PER_DAY
        + ((a.ms - b.ms + (MS_PER_MINUTE \div 2)) \div MS_PER_MINUTE)

deltaMinutes(d1, d2) == RoundedMinutes(d1.date, d2.date)

\* time?.f ?? 0
TimeField(time, f) ==
    IF time.t = "undefined" THEN Num(0) ELSE Coalesce(time[f], Num(0))

fromDateTupleAndTime(tuple, time) ==
    LET date == NewDate(tuple[1], tuple[2] - 1, tuple[3],
                        TimeField(time, "hour").v, TimeField(time, "minute").v)
    IN  NewDateHelper(Num(date), EmptyConfig)

\* a test that lets month and day have one digit: /^\d{4}-\d{1,2}-\d{1,2}$/
IsLooseISODate(date) ==
    LET parts == Split(date, "-")
    IN  /\ Len(parts) = 3
        /\ \A i \in 1..3 : AllDigits(parts[i])
        /\ Len(parts[1]) = 4
        /\ Len(parts[2]) \in {1, 2}
        /\ Len(parts[3]) \in {1, 2}

\* /^\d{4}-\d{2}-\d{2}$/.test(date)
IsStrictISODate(date) ==
    /\ Len(date) = 10
    /\ \A i \in {1, 2, 3, 4, 6, 7, 9, 10} : IsDigit(date[i])
    /\ date[5] = "-"
    /\ date[8] = "-"

isInGivenDate(date, instance) ==
    IF ~IsStrictISODate(date) THEN Throw("Error")
    ELSE LET parts == Split(date, "-")
             tuple == toDateTuple(instance)
         IN  Return(/\ Num(tuple[1]) = ToNumber(At(parts, 1))
                    /\ Num(tuple[2]) = ToNumber(At(parts, 2))
                    /\ Num(tuple[3]) = ToNumber(At(parts, 3)))

\* the language table the switch on defaultLang selects
getLanguageConstants(e) == IF e.defaultLang = "th" THEN "th" ELSE "en"

MONTHS(table) == IF table = "th" THEN TH_MONTHS ELSE EN_MONTHS

MONTHS_ABBR(table) == IF table = "th" THEN TH_MONTHS_ABBR ELSE EN_MONTHS_ABBR

timeAgo_justNow(table) == IF table = "th" THEN TH_justNow ELSE EN_justNow

timeAgo_minute(table, n) == IF table = "th" THEN TH_minute(n) ELSE EN_minute(n)

timeAgo_hour(table, n) == IF table = "th" THEN TH_hour(n) ELSE EN_hour(n)

timeAgo_day(table, n) == IF table = "th" THEN TH_day(n) ELSE EN_day(n)

\* a leap-year rule without the century exception
IsLeapYearEvery4(year) == year % 4 = 0

IsLeapYear(year) == (year % 4 = 0 /\ year % 100 # 0) \/ year % 400 = 0

getDaysCountInMonth(e) ==
    LET year == toDateTuple(e)[1]
        month == toDateTuple(e)[2]
        monthWith30Days == {4, 6, 9, 11}
    IN  IF month = 2 THEN (IF IsLeapYear(year) THEN 29 ELSE 28)
        ELSE IF month \in monthWith30Days THEN 30 ELSE 31

\* a Buddhist-Era year that follows the useBD setting
getBDYearIfConfigured(e) ==
    IF e.useBD THEN getFullYear(e.date) + 543 ELSE getFullYear(e.date)

getBDYear(e) == getFullYear(e.date) + 543

getADYear(e) == getFullYear(e.date)

\* a month name read with the 1-based month
getMonthNameOneBased(e) ==
    LET month == getMonth(e.date)
        table == getLanguageConstants(e)
    IN  IF e.useShortText THEN MONTHS_ABBR(table)[((month + 1) % 12) + 1]
        ELSE MONTHS(table)[((month + 1) % 12) + 1]

\* the tables are 0-based in the source and 1-based here
getMonthName(e) ==
    LET month == getMonth(e.date)
        table == getLanguageConstants(e)
    IN  IF e.useShortText THEN MONTHS_ABBR(table)[month + 1]
        ELSE MONTHS(table)[month + 1]

getDisplayDate(e) ==
    LET date == getDate(e.date)
        year == IF e.useBD THEN getBDYear(e) ELSE getADYear(e)
        monthString == getMonthName(e)
        yearString == IF e.useShortText THEN year % 100 ELSE year
    IN  JSString(padZero(Num(date))) \o <<" ">> \o monthString \o <<" ">>
            \o NumToStr(yearString)

\* getTimeRelativeToNow with the hour bucket ending one minute late
getTimeRelativeToNowLateHour(e) ==
    LET delta == deltaMinutes(NewDateHelper(Undefined, EmptyConfig), e)
        table == getLanguageConstants(e)
    IN  IF delta < 1 THEN timeAgo_justNow(table)
        ELSE IF delta <= 60 THEN timeAgo_minute(table, delta)
        ELSE IF delta < 1440 THEN timeAgo_hour(table, delta \div 60)
        ELSE IF delta < 43200 THEN timeAgo_day(table, delta \div 1440)
        ELSE getDisplayDate(e)

getTimeRelativeToNow(e) ==
    LET delta == deltaMinutes(NewDateHelper(Undefined, EmptyConfig), e)
        table == getLanguageConstants(e)
    IN  IF delta < 1 THEN timeAgo_justNow(table)
        ELSE IF delta < 60 THEN timeAgo_minute(table, delta)
        ELSE IF delta < 1440 THEN timeAgo_hour(table, delta \div 60)
        ELSE IF delta < 43200 THEN timeAgo_day(table, delta \div 1440)
        ELSE getDisplayDate(e)

\* getDisplayTime whose 12-hour clock shows hours % 12 as it is
getDisplayTimeZeroNoon(e) ==
    LET hours == getHours(e.date)
        minutes == getMinutes(e.date)
        seconds == getSeconds(e.date)
        period == IF ~e.use12HourFormat THEN <<>>
                  ELSE IF hours >= 12 THEN <<"P", "M">> ELSE <<"A", "M">>
        hh == IF ~e.use12HourFormat THEN padZero(Num(hours))
              ELSE padZero(Num(hours % 12))
        hm == JSString(hh) \o <<":">> \o JSString(padZero(Num(minutes)))
        formattedTime == IF e.showSeconds
                         THEN hm \o <<":">> \o JSString(padZero(Num(seconds)))
                         ELSE hm
    IN  IF e.use12HourFormat THEN formattedTime \o <<" ">> \o period
        ELSE formattedTime

getDisplayTime(e) ==
    LET hours == getHours(e.date)
        minutes == getMinutes(e.date)
        seconds == getSeconds(e.date)
        period == IF ~e.use12HourFormat THEN <<>>
                  ELSE IF hours >= 12 THEN <<"P", "M">> ELSE <<"A", "M">>
        \* hours % 12 || 12
        hh == IF ~e.use12HourFormat THEN padZero(Num(hours))
              ELSE padZero(Num(IF hours % 12 # 0 THEN hours % 12 ELSE 12))
        hm == JSString(hh) \o <<":">> \o JSString(padZero(Num(minutes)))
        formattedTime == IF e.showSeconds
                         THEN hm \o <<":">> \o JSString(padZero(Num(seconds)))
                         ELSE hm
    IN  IF e.use12HourFormat THEN formattedTime \o <<" ">> \o period
        ELSE formattedTime

\* a timeDelta that counts a day in seconds
timeDeltaInSeconds(days) == days * (ONE_DAY_IN_MILLISECONDS \div 1000)

timeDelta(days) == days * ONE_DAY_IN_MILLISECONDS

\* a getYesterday that hands the receiver's configuration on
getYesterdayKeepingConfig(e) ==
    [e EXCEPT !.date = AddMs(toMs(e), -timeDelta(1))]

getYesterday(e) ==
    NewDateHelper(Num(AddMs(toMs(e), -timeDelta(1))), EmptyConfig)

THAI_TIMEZONE_OFFSET == 7 * 60 * 60 * 1000

\* offset = this.THAI_TIMEZONE_OFFSET
OffsetOrDefault(offset) ==
    IF offset.t = "undefined" THEN THAI_TIMEZONE_OFFSET ELSE offset.v

\* DateHelper.getInstanceWithOffset(date, offset).  Where Date.parse(date) is
\* NaN, ms + offset is NaN, which the constructor cannot read a date from.
getInstanceWithOffset(date, offset) ==
    LET ms == DateParse(date)
    IN  IF IsNaN(ms) THEN Throw("Error")
        ELSE Return(NewDateHelper(Num(AddMs(ms.v, OffsetOrDefault(offset))),
                                  EmptyConfig))

\* a DateTuple as an argument that may be null
DateTupleOf(tuple) == [t |-> "array", v |-> tuple]

\* tuple.join("-"): the numbers as they print, with no padding
TupleJoin(tuple) ==
    NatToStr(tuple[1]) \o <<"-">> \o NatToStr(tuple[2]) \o <<"-">>
        \o NatToStr(tuple[3])

\* the joined tuple has the form YYYY-MM-DD
JoinsToISODate(tuple) ==
    /\ tuple[1] \in 1000..9999
    /\ tuple[2] \in 10..99
    /\ tuple[3] \in 10..99

\* Date.parse of a joined tuple that is not of the form YYYY-MM-DD, such as
\* "2024-3-1": the standard leaves the result to the host.  A host gives
\* NaN, the local midnight of that day, or its UTC midnight.
HostDateParse(tuple) ==
    {NaN,
     Num(NewDate(tuple[1], tuple[2] - 1, tuple[3], 0, 0)),
     Num(Instant(DaysFromCivil(tuple[1], tuple[2], tuple[3]), 0))}

\* DateHelper.fromDateTuple(tuple): the outcomes a host can give
fromDateTuple(tuple) ==
    IF tuple.t = "null" THEN {Return(Null)}
    ELSE LET parsed == IF JoinsToISODate(tuple.v)
                       THEN {DateParse(TupleJoin(tuple.v))}
                       ELSE HostDateParse(tuple.v)
         IN  {IF IsNaN(parsedDate) THEN Throw("Error")
              ELSE Return(NewDateHelper(Num(parsedDate.v), EmptyConfig)) :
                  parsedDate \in parsed}

\* Date.prototype.setHours(hours, min, sec, ms): the local day of a, at the
\* local time given
setHours(a, hours, min, sec, ms) ==
    Normalise(LocalTime(a).day,
              hours * MS_PER_HOUR + min * MS_PER_MINUTE + sec * 1000 + ms
                  - tz * MS_PER_MINUTE)

\* an isTimePastForDate that sets the hours on the Date of its argument
isTimePastForDateInPlace(time, date) ==
    LET given == IF "t" \in DOMAIN date
                 THEN NewDateHelper(Undefined, EmptyConfig) ELSE date
        cmp == given
        cmpSet == [cmp EXCEPT !.date =
                      setHours(cmp.date, Coalesce(time.hour, Num(0)).v,
                               Coalesce(time.minute, Num(0)).v, 0, 0)]
    IN  [value |-> Before(toMs(cmpSet), now), date |-> cmpSet]

\* an isTimePastForDate that takes the day from the current moment
isTimePastForDateToday(time, date) ==
    LET given == IF "t" \in DOMAIN date
                 THEN NewDateHelper(Undefined, EmptyConfig) ELSE date
        cmp == NewDateHelper(Undefined, EmptyConfig)
        cmpSet == [cmp EXCEPT !.date =
                      setHours(cmp.date, Coalesce(time.hour, Num(0)).v,
                               Coalesce(time.minute, Num(0)).v, 0, 0)]
    IN  [value |-> Before(toMs(cmpSet), now), date |-> given]

\* isTimePastForDate(time, date), date Undefined where the caller omits it.
\* value is what the call returns; date is the instance passed (or the
\* default made for it) as the call leaves it: cmp holds a Date of its own,
\* so setHours on cmp.getDate() does not reach the Date of the argument.
isTimePastForDate(time, date) ==
    LET given == IF "t" \in DOMAIN date
                 THEN NewDateHelper(Undefined, EmptyConfig) ELSE date
        cmp == NewDateHelper(Num(toMs(given)), EmptyConfig)
        cmpSet == [cmp EXCEPT !.date =
                      setHours(cmp.date, Coalesce(time.hour, Num(0)).v,
                               Coalesce(time.minute, Num(0)).v, 0, 0)]
    IN  [value |-> Before(toMs(cmpSet), now), date |-> given]

\* moment(this.date): a moment of the instant, in the global locale
toMoment(e) == [date |-> e.date, locale |-> momentLocale]

\* the static DateHelper.isSameDay(d1, d2)
DateHelper_isSameDay(d1, d2) ==
    LET d1Tuple == toDateTuple(d1)
        d2Tuple == toDateTuple(d2)
    IN  /\ d1Tuple[1] = d2Tuple[1]
        /\ d1Tuple[2] = d2Tuple[2]
        /\ d1Tuple[3] = d2Tuple[3]

\* an isSameMonth that compares the months only
isSameMonthAnyYear(e, dateToCompare) ==
    getMonth(e.date) = getMonth(dateToCompare.date)

isSameMonth(e, dateToCompare) ==
    /\ getFullYear(e.date) = getFullYear(dateToCompare.date)
    /\ getMonth(e.date) = getMonth(dateToCompare.date)

isSameDay(e, dateToCompare) ==
    /\ isSameMonth(e, dateToCompare)
    /\ getDate(e.date) = getDate(dateToCompare.date)

\* an isDayBefore without the same-day test
isDayBeforeByInstant(e, dateToCompare) ==
    Before(toMs(e), toMs(dateToCompare))

isDayBefore(e, dateToCompare) ==
    IF isSameDay(e, dateToCompare) THEN FALSE
    ELSE Before(toMs(e), toMs(dateToCompare))

isDayAfter(e, dateToCompare) ==
    IF isSameDay(e, dateToCompare) THEN FALSE
    ELSE Before(toMs(dateToCompare), toMs(e))

MonthYear(month, year) == [month |-> month, year |-> year]

\* a findPreviousMonthYear that wraps below month 0
findPreviousMonthYearLateWrap(month, year) ==
    IF month - 1 < 0 THEN MonthYear(12, year - 1)
    ELSE MonthYear(month - 1, year)

findPreviousMonthYear(month, year) ==
    IF month - 1 < 1 THEN MonthYear(12, year - 1)
    ELSE MonthYear(month - 1, year)

findNextMonthYear(month, year) ==
    IF month + 1 > 12 THEN MonthYear(1, year + 1)
    ELSE MonthYear(month + 1, year)

\* toISODate: the year as String() gives it, month and day through padZero
toISODate(e) ==
    LET y == getFullYear(e.date)
        m == getMonth(e.date) + 1
        d == getDate(e.date)
    IN  JSString(Num(y)) \o <<"-">> \o JSString(padZero(Num(m))) \o <<"-">>
            \o JSString(padZero(Num(d)))

\* h == null
isSameTimeString(t1, t2) ==
    LET h1 == At(Split(t1, ":"), 1)
        m1 == At(Split(t1, ":"), 2)
        h2 == At(Split(t2, ":"), 1)
        m2 == At(Split(t2, ":"), 2)
    IN  IF ~NotNullish(h1) \/ ~NotNullish(h2) \/ ~NotNullish(m1)
            \/ ~NotNullish(m2)
        THEN Throw("Error")
        ELSE Return(h1.v = h2.v /\ m1.v = m2.v)

\* the static CURRENT_YEAR(): the year of a Date made at the call
CURRENT_YEAR == getFullYear(now)

\* isToday: today is an instance of the clock at the call
isToday(e) == isSameDay(e, NewDateHelper(Undefined, EmptyConfig))

\* isPast(pastForm), pastForm Undefined where the caller omits it: the
\* default is an instance of the clock at the call
isPast(e, pastForm) ==
    LET reference == IF "t" \in DOMAIN pastForm
                     THEN NewDateHelper(Undefined, EmptyConfig) ELSE pastForm
    IN  Before(toMs(e), toMs(reference))

\* a getDate that hands out a copy of the Date
DateHelper_getDateCopy(e) == [object |-> "copy", time |-> e.date]

\* DateHelper's getDate(): the Date object returned, named by where it
\* lives, with the time value it holds at the call
DateHelper_getDate(e) == [object |-> "this.date", time |-> e.date]

----------------------------------------------------------------------------
(* Bounds and input sets *)

\* extra years taken after each year of interest
YearSpan == 1

\* number of clock ticks in a behaviour
MaxTicks == 2

\* largest magnitude of the numbers given to padZero
MaxPadNumber == 12

\* host offsets: New York (standard time), UTC, Bangkok
TZOffsets == {-300, 0, 420}

\* the wall clock at start: 2024-03-01T12:00:00.000Z
StartNow == Instant(DaysFromCivil(2024, 3, 1), 12 * MS_PER_HOUR)

\* a clock tick: half a minute
TickMs == MS_PER_MINUTE \div 2

\* how long before StartNow an instant lies: <<days, milliseconds>>
Ages ==
    {<<0, 0>>, <<0, 1>>, <<0, 29999>>, <<0, 30000>>, <<0, 59999>>,
     <<0, 60000>>, <<0, 59 * 60000>>, <<0, 60 * 60000>>, <<0, 1439 * 60000>>,
     <<1, 0>>, <<29, 1439 * 60000>>, <<30, 0>>, <<0, -30000>>, <<0, -90000>>}

MachineInstants == {Normalise(StartNow.day - a[1], StartNow.ms - a[2]) : a \in Ages}

MachineConfigs ==
    {EmptyConfig,
     Config(Str("th"), Undefined, Undefined, Undefined, Undefined, Undefined),
     Config(Undefined, Undefined, Bool(FALSE), Bool(TRUE), Undefined, Undefined),
     Config(Str("th"), Bool(TRUE), Undefined, Bool(TRUE), Undefined, Bool(TRUE))}

MachineTuples == {<<2024, 2, 29>>, <<2024, 3, 1>>, <<1999, 12, 31>>}

Times ==
    {Undefined, TimeObj(Null, Null), TimeObj(Num(0), Num(0)),
     TimeObj(Num(23), Num(59))}

\* the times of day asked about: the local time of StartNow in each host
\* offset, a minute later, and the ends of the day
PastTimes ==
    {TimeObj(Null, Null), TimeObj(Num(7), Null), TimeObj(Num(12), Num(0)),
     TimeObj(Num(12), Num(1)), TimeObj(Num(19), Num(0)),
     TimeObj(Num(23), Num(59))}

----------------------------------------------------------------------------
(* The state machine: one action per operation *)

NoInput == [kind |-> "none"]

InitProgram ==
    /\ tz \in TZOffsets
    /\ now = StartNow
    /\ CURRENT_MONTH = getMonth(now) + 1
    /\ self = NewDateHelper(Undefined, EmptyConfig)
    /\ made = [op |-> "new", x |-> Undefined, config |-> EmptyConfig]
    /\ momentLocale = "en"
    /\ call = [op |-> "none"]

Init == InitProgram /\ input = NoInput

\* the host clock advances
Tick ==
    /\ Before(now, AddMs(StartNow, MaxTicks * TickMs))
    /\ now' = AddMs(now, TickMs)
    /\ call' = [op |-> "tick"]
    /\ UNCHANGED <<tz, CURRENT_MONTH, self, made, momentLocale, input>>

\* new DateHelper(x, config), DateHelper.now(config) when x is Undefined
Construct(x, config) ==
    /\ self' = NewDateHelper(x, config)
    /\ made' = [op |-> "new", x |-> x, config |-> config]
    /\ momentLocale' = LocaleAfterNew(self')
    /\ call' = [op |-> "none"]
    /\ UNCHANGED <<tz, CURRENT_MONTH, now, input>>

\* new DateHelper(s, config) for a string s
ConstructFromString(s, config) ==
    IF ConstructorDate(Str(s)).threw
    THEN /\ call' = [op |-> "new", x |-> Str(s), res |-> ConstructorDate(Str(s))]
         /\ UNCHANGED <<tz, CURRENT_MONTH, now, self, made, momentLocale, input>>
    ELSE /\ self' = NewDateHelper(Str(s), config)
         /\ made' = [op |-> "new", x |-> Str(s), config |-> config]
         /\ momentLocale' = LocaleAfterNew(self')
         /\ call' = [op |-> "new", x |-> Str(s), res |-> Return(self')]
         /\ UNCHANGED <<tz, CURRENT_MONTH, now, input>>

FromDateTupleAndTime(tuple, time) ==
    /\ self' = fromDateTupleAndTime(tuple, time)
    /\ made' = [op |-> "fromDateTupleAndTime", tuple |-> tuple, time |-> time]
    /\ momentLocale' = LocaleAfterNew(self')
    /\ call' = [op |-> "none"]
    /\ UNCHANGED <<tz, CURRENT_MONTH, now, input>>

ToDateTuple ==
    /\ call' = [op |-> "toDateTuple", res |-> toDateTuple(self)]
    /\ UNCHANGED <<tz, CURRENT_MONTH, now, self, made, momentLocale, input>>

GetDaysCountInMonth ==
    /\ call' = [op |-> "getDaysCountInMonth", res |-> getDaysCountInMonth(self)]
    /\ UNCHANGED <<tz, CURRENT_MONTH, now, self, made, momentLocale, input>>

GetADYear ==
    /\ call' = [op |-> "getADYear", res |-> getADYear(self)]
    /\ UNCHANGED <<tz, CURRENT_MONTH, now, self, made, momentLocale, input>>

GetBDYear ==
    /\ call' = [op |-> "getBDYear", res |-> getBDYear(self)]
    /\ UNCHANGED <<tz, CURRENT_MONTH, now, self, made, momentLocale, input>>

GetDisplayDate ==
    /\ call' = [op |-> "getDisplayDate", res |-> getDisplayDate(self)]
    /\ UNCHANGED <<tz, CURRENT_MONTH, now, self, made, momentLocale, input>>

\* getTimeRelativeToNow builds a default-configuration instance for now,
\* which leaves the moment locale as it is
GetTimeRelativeToNow ==
    /\ call' = [op |-> "getTimeRelativeToNow", res |-> getTimeRelativeToNow(self)]
    /\ UNCHANGED <<tz, CURRENT_MONTH, now, self, made, momentLocale, input>>

\* DateHelper.deltaMinutes(self, other), other = new DateHelper(b)
DeltaMinutes(b) ==
    /\ call' = [op |-> "deltaMinutes", other |-> b,
                res |-> deltaMinutes(self, NewDateHelper(Num(b), EmptyConfig))]
    /\ UNCHANGED <<tz, CURRENT_MONTH, now, self, made, momentLocale, input>>

\* what the caller observes of a result: a thrown FormatError is whichever
\* of FormatErrorKinds the build makes of it
Outcomes(r) ==
    IF r.threw /\ r.error = "FormatError"
    THEN {Throw(k) : k \in FormatErrorKinds}
    ELSE {r}

TimeStringToTime(timeString) ==
    /\ \E out \in Outcomes(timeStringToTime(timeString)) :
           call' = [op |-> "timeStringToTime", timeString |-> timeString,
                    res |-> out]
    /\ UNCHANGED <<tz, CURRENT_MONTH, now, self, made, momentLocale, input>>

TimeToTimeString(time) ==
    /\ call' = [op |-> "timeToTimeString", time |-> time,
                res |-> timeToTimeString(time)]
    /\ UNCHANGED <<tz, CURRENT_MONTH, now, self, made, momentLocale, input>>

PadZero(num) ==
    /\ call' = [op |-> "padZero", num |-> num, res |-> padZero(num)]
    /\ UNCHANGED <<tz, CURRENT_MONTH, now, self, made, momentLocale, input>>

\* DateHelper.isInGivenDate(date, self)
IsInGivenDate(date) ==
    /\ call' = [op |-> "isInGivenDate", date |-> date,
                res |-> isInGivenDate(date, self)]
    /\ UNCHANGED <<tz, CURRENT_MONTH, now, self, made, momentLocale, input>>

GetDisplayTime ==
    /\ call' = [op |-> "getDisplayTime", res |-> getDisplayTime(self)]
    /\ UNCHANGED <<tz, CURRENT_MONTH, now, self, made, momentLocale, input>>

\* res is self.getYesterday(), again is res.getYesterday()
GetYesterday ==
    /\ call' = [op |-> "getYesterday", res |-> getYesterday(self),
                again |-> getYesterday(getYesterday(self))]
    /\ UNCHANGED <<tz, CURRENT_MONTH, now, self, made, momentLocale, input>>

\* DateHelper.isTimePastForDate(time, self); self is afterwards what the
\* call made of its argument
IsTimePastForDate(time) ==
    /\ call' = [op |-> "isTimePastForDate", time |-> time, omitted |-> FALSE,
                res |-> isTimePastForDate(time, self).value]
    /\ self' = isTimePastForDate(time, self).date
    /\ UNCHANGED <<tz, CURRENT_MONTH, now, made, momentLocale, input>>

\* DateHelper.isTimePastForDate(time)
IsTimePastForToday(time) ==
    /\ call' = [op |-> "isTimePastForDate", time |-> time, omitted |-> TRUE,
                res |-> isTimePastForDate(time, Undefined).value]
    /\ UNCHANGED <<tz, CURRENT_MONTH, now, self, made, momentLocale, input>>

ToMoment ==
    /\ call' = [op |-> "toMoment", res |-> toMoment(self)]
    /\ UNCHANGED <<tz, CURRENT_MONTH, now, self, made, momentLocale, input>>

\* self.isSameDay(other) and other.isSameDay(self), other built from a
\* calendar date and a time
IsSameDay(tuple, time) ==
    LET other == fromDateTupleAndTime(tuple, time)
    IN  /\ call' = [op |-> "isSameDay", other |-> other,
                    res |-> isSameDay(self, other),
                    swapped |-> isSameDay(other, self)]
        /\ UNCHANGED <<tz, CURRENT_MONTH, now, self, made, momentLocale, input>>

\* DateHelper.isSameDay(self, other) and DateHelper.isSameDay(other, self)
StaticIsSameDay(tuple, time) ==
    LET other == fromDateTupleAndTime(tuple, time)
    IN  /\ call' = [op |-> "DateHelper.isSameDay", other |-> other,
                    res |-> DateHelper_isSameDay(self, other),
                    swapped |-> DateHelper_isSameDay(other, self)]
        /\ UNCHANGED <<tz, CURRENT_MONTH, now, self, made, momentLocale, input>>

IsSameMonth(tuple, time) ==
    LET other == fromDateTupleAndTime(tuple, time)
    IN  /\ call' = [op |-> "isSameMonth", other |-> other,
                    res |-> isSameMonth(self, other),
                    swapped |-> isSameMonth(other, self)]
        /\ UNCHANGED <<tz, CURRENT_MONTH, now, self, made, momentLocale, input>>

IsDayBefore(tuple, time) ==
    LET other == fromDateTupleAndTime(tuple, time)
    IN  /\ call' = [op |-> "isDayBefore", other |-> other,
                    res |-> isDayBefore(self, other),
                    swapped |-> isDayBefore(other, self)]
        /\ UNCHANGED <<tz, CURRENT_MONTH, now, self, made, momentLocale, input>>

IsDayAfter(tuple, time) ==
    LET other == fromDateTupleAndTime(tuple, time)
    IN  /\ call' = [op |-> "isDayAfter", other |-> other,
                    res |-> isDayAfter(self, other),
                    swapped |-> isDayAfter(other, self)]
        /\ UNCHANGED <<tz, CURRENT_MONTH, now, self, made, momentLocale, input>>

\* res is findPreviousMonthYear(month, year), back is findNextMonthYear of it
FindPreviousMonthYear(month, year) ==
    LET res == findPreviousMonthYear(month, year)
    IN  /\ call' = [op |-> "findPreviousMonthYear", month |-> month,
                    year |-> year, res |-> res,
                    back |-> findNextMonthYear(res.month, res.year)]
        /\ UNCHANGED <<tz, CURRENT_MONTH, now, self, made, momentLocale, input>>

\* res is findNextMonthYear(month, year), back is findPreviousMonthYear of it
FindNextMonthYear(month, year) ==
    LET res == findNextMonthYear(month, year)
    IN  /\ call' = [op |-> "findNextMonthYear", month |-> month,
                    year |-> year, res |-> res,
                    back |-> findPreviousMonthYear(res.month, res.year)]
        /\ UNCHANGED <<tz, CURRENT_MONTH, now, self, made, momentLocale, input>>

\* res is self.toISODate(), given is DateHelper.isInGivenDate(res, self)
ToISODate ==
    /\ call' = [op |-> "toISODate", res |-> toISODate(self),
                given |-> isInGivenDate(toISODate(self), self)]
    /\ UNCHANGED <<tz, CURRENT_MONTH, now, self, made, momentLocale, input>>

\* res is DateHelper.fromDateTupleAndTime(self.toDateTuple(),
\* self.toTimeObject()); again is the same made from res
RoundTrip ==
    LET res == fromDateTupleAndTime(toDateTuple(self), toTimeObject(self))
    IN  /\ call' = [op |-> "roundTrip", res |-> res,
                    again |-> fromDateTupleAndTime(toDateTuple(res),
                                                   toTimeObject(res))]
        /\ UNCHANGED <<tz, CURRENT_MONTH, now, self, made, momentLocale, input>>

\* DateHelper.fromDateTuple(tuple)
FromDateTuple(tuple) ==
    \E res \in fromDateTuple(tuple) :
        /\ call' = [op |-> "fromDateTuple", tuple |-> tuple, res |-> res]
        /\ UNCHANGED <<tz, CURRENT_MONTH, now, self, made, momentLocale, input>>

\* DateHelper.getInstanceWithOffset(date, offset), offset Undefined when the
\* call leaves it out
GetInstanceWithOffset(date, offset) ==
    /\ call' = [op |-> "getInstanceWithOffset", date |-> date,
                offset |-> offset, res |-> getInstanceWithOffset(date, offset)]
    /\ UNCHANGED <<tz, CURRENT_MONTH, now, self, made, momentLocale, input>>

IsSameTimeString(t1, t2) ==
    /\ call' = [op |-> "isSameTimeString", t1 |-> t1, t2 |-> t2,
                res |-> isSameTimeString(t1, t2)]
    /\ UNCHANGED <<tz, CURRENT_MONTH, now, self, made, momentLocale, input>>

\* self.isPastDay(): !this.isToday() && this.isPast().  isToday reads the
\* clock as the call starts; isPast reads it again, after the time the
\* call has taken so far, and is reached only where isToday gave false.
IsPastDay(limit) ==
    \E elapsed \in {0, TickMs} :
        /\ elapsed = 0 \/ Before(now, limit)
        /\ now' = IF isToday(self) THEN now ELSE AddMs(now, elapsed)
        /\ UNCHANGED <<tz, CURRENT_MONTH, self, made, momentLocale, input>>
        /\ call' = [op |-> "isPastDay", began |-> now,
                    res |-> (~isToday(self) /\ isPast(self, Undefined)')]

\* reading DateHelper.CURRENT_MONTH
ReadCurrentMonth ==
    /\ call' = [op |-> "CURRENT_MONTH", res |-> CURRENT_MONTH]
    /\ UNCHANGED <<tz, CURRENT_MONTH, now, self, made, momentLocale, input>>

\* calling DateHelper.CURRENT_YEAR()
ReadCurrentYear ==
    /\ call' = [op |-> "CURRENT_YEAR", res |-> CURRENT_YEAR]
    /\ UNCHANGED <<tz, CURRENT_MONTH, now, self, made, momentLocale, input>>

\* The caller's self.getDate().setHours(hours, min, 0, 0), after taking a
\* second instance new DateHelper(self.toMs()) and a second handle.  The
\* write lands in self exactly where the handle is self's own Date, and two
\* calls give one object exactly where both give that Date.
SetHoursThroughGetDate(hours, min) ==
    LET handle == DateHelper_getDate(self)
        written == setHours(handle.time, hours, min, 0, 0)
    IN  /\ self' = IF handle.object = "this.date"
                   THEN [self EXCEPT !.date = written] ELSE self
        /\ made' = [op |-> "getDate().setHours", hours |-> hours, min |-> min,
                    before |-> toMs(self),
                    sameObject |-> (/\ handle.object = "this.date"
                                    /\ DateHelper_getDate(self).object = "this.date"),
                    other |-> NewDateHelper(Num(toMs(self)), EmptyConfig)]
        /\ call' = [op |-> "none"]
        /\ UNCHANGED <<tz, CURRENT_MONTH, now, momentLocale, input>>

ToTimeObject ==
    /\ call' = [op |-> "toTimeObject", res |-> toTimeObject(self)]
    /\ UNCHANGED <<tz, CURRENT_MONTH, now, self, made, momentLocale, input>>

----------------------------------------------------------------------------
(* Spec: instances made and queried while the clock runs *)

Next ==
    \/ Tick
    \/ \E x \in {Undefined} \cup {Num(a) : a \in MachineInstants},
          config \in MachineConfigs : Construct(x, config)
    \/ \E tuple \in MachineTuples, time \in Times :
          FromDateTupleAndTime(tuple, time)
    \/ ToDateTuple
    \/ GetDisplayDate
    \/ GetTimeRelativeToNow
    \/ \E b \in MachineInstants : DeltaMinutes(b)
    \/ GetYesterday
    \/ \E time \in PastTimes : IsTimePastForDate(time)
    \/ \E time \in PastTimes : IsTimePastForToday(time)
    \/ ToMoment

Spec == Init /\ [][Next]_vars

----------------------------------------------------------------------------
(* SpecCalendar: one instance built from a calendar date, then queried *)

\* length of month m of year y by the Gregorian rule, used to enumerate the
\* valid calendar dates
GregorianDaysInMonth(y, m) ==
    IF m = 2
    THEN (IF y % 4 = 0 /\ (y % 100 # 0 \/ y % 400 = 0) THEN 29 ELSE 28)
    ELSE IF m \in {4, 6, 9, 11} THEN 30 ELSE 31

CalendarYears ==
    {y + k : y \in {0, 99, 1900, 2000, 2023}, k \in 0..YearSpan}
        \cup {9999 - k : k \in 0..YearSpan}

CalendarInputs ==
    {[kind |-> "tuple", tuple |-> <<y, md[1], md[2]>>, time |-> time] :
        y \in CalendarYears,
        md \in (1..12) \X (1..31),
        time \in {Undefined, TimeObj(Num(23), Num(59))}}

ValidCalendarInputs ==
    {i \in CalendarInputs :
        i.tuple[3] <= GregorianDaysInMonth(i.tuple[1], i.tuple[2])}

InitCalendar == InitProgram /\ input \in ValidCalendarInputs

NextCalendar ==
    \/ FromDateTupleAndTime(input.tuple, input.time)
    \/ ToDateTuple
    \/ GetDaysCountInMonth

SpecCalendar == InitCalendar /\ [][NextCalendar]_vars

----------------------------------------------------------------------------
(* SpecDisplay: one configured instance, then its display operations *)

DisplayYears == {999, 1957, 2024}

DisplayDays == {1, 10, 28}

DisplayConfigs ==
    {Config(lang, isUTC, useShortText, useBD, Undefined, Undefined) :
        lang \in {Undefined, Str("th")},
        isUTC \in {Undefined, Bool(TRUE)},
        useShortText \in {Undefined, Bool(TRUE)},
        useBD \in {Undefined, Bool(TRUE), Bool(FALSE)}}

DisplayInputs ==
    {[kind |-> "display", tuple |-> <<y, m, d>>, config |-> config] :
        y \in DisplayYears, m \in 1..12, d \in DisplayDays,
        config \in DisplayConfigs}

InitDisplay == InitProgram /\ input \in DisplayInputs

\* new DateHelper(+new Date(y, m - 1, d), config): local midnight of the date
ConstructAtMidnight ==
    Construct(Num(NewDate(input.tuple[1], input.tuple[2] - 1, input.tuple[3], 0, 0)),
              input.config)

NextDisplay ==
    \/ ConstructAtMidnight
    \/ GetDisplayDate
    \/ GetADYear
    \/ GetBDYear
    \/ ToISODate

SpecDisplay == InitDisplay /\ [][NextDisplay]_vars

----------------------------------------------------------------------------
(* SpecText: the string helpers applied to one input *)

\* number of segments a time string may have beyond hour and minute
MaxExtraSegments == 1

TimeSegments ==
    {<<>>, <<"0">>, <<"5">>, <<"9">>, <<"0", "5">>, <<"0", "9">>,
    <<"1", "0">>, <<"1", "3">>, <<"2", "3">>, <<"2", "4">>, <<"5", "9">>,
    <<"6", "0">>, <<"-", "1">>, <<" ", "7">>, <<"1", "a">>,
    <<"0", "0", "7">>}

ExtraSegments == {<<"3", "0">>}

RECURSIVE JoinedSegments(_)
JoinedSegments(k) ==
    IF k = 1 THEN TimeSegments
    ELSE IF k = 2 THEN {a \o <<":">> \o b : a \in TimeSegments, b \in TimeSegments}
    ELSE {a \o <<":">> \o b : a \in JoinedSegments(k - 1), b \in ExtraSegments}

TimeStrings == UNION {JoinedSegments(k) : k \in 1..(2 + MaxExtraSegments)}

TimeObjects ==
    {TimeObj(h, m) : h \in {Null} \cup {Num(n) : n \in 0..23},
                     m \in {Null} \cup {Num(n) : n \in 0..59}}

PadStrings ==
    {<<>>, <<"5">>, <<"0", "5">>, <<"9">>, <<"1", "0">>, <<"-", "5">>,
    <<" ", "5">>, <<"a">>, <<"5", "a">>, <<"2", "3">>}

PadInputs ==
    {Num(n) : n \in (-MaxPadNumber)..MaxPadNumber} \cup {Num(100)}
        \cup {Str(x) : x \in PadStrings}

ISODateStrings ==
    {y \o <<sep>> \o m \o <<"-">> \o d \o tail :
        y \in {<<"2", "0", "2", "4">>, <<"0", "2", "4">>,
              <<"2", "0", "2", "4", "5">>, <<"2", "0", "2", "a">>},
        sep \in {"-", "/"},
        m \in {<<"0", "3">>, <<"3">>, <<"1", "2">>, <<"1", "a">>},
        d \in {<<"0", "1">>, <<"1">>, <<"3", "1">>, <<" ", "1">>},
        tail \in {<<>>, <<"x">>, <<"\n">>}}

DateStrings ==
    {<<>>, <<" ">>, <<" ", " ">>, <<"\n">>, <<"a", "b", "c">>, <<"0">>,
    <<"1", "0", "0", "0">>, <<"2", "0", "2", "4">>, <<"2", "0", "2", "4", "-", "0", "3", "-", "0", "1">>,
    <<"2", "0", "2", "4", "-", "1", "3", "-", "0", "1">>,
    <<"2", "0", "2", "4", "-", "0", "3", "-", "0", "0">>,
    <<"2", "0", "2", "4", "/", "0", "3", "x", "0", "1">>}

TimePairStrings ==
    {<<"9", ":", "0", "5">>, <<"0", "9", ":", "0", "5">>,
    <<"0", "9", ":", "0", "6">>, <<"0", "9", "0", "5">>,
    <<"2", "5", ":", "9", "9">>, <<"a", "b", ":", "c", "d">>,
    <<"0", "9", ":", "0", "5", ":", "3", "0">>}

TextInputs ==
    {[kind |-> "timeString", timeString |-> x] : x \in TimeStrings}
        \cup {[kind |-> "timePair", t1 |-> x, t2 |-> y] :
                 x \in TimePairStrings, y \in TimePairStrings}
        \cup {[kind |-> "dateString", date |-> x, config |-> config] :
                 x \in DateStrings,
                 config \in {EmptyConfig,
                             Config(Str("th"), Bool(TRUE), Undefined,
                                    Undefined, Undefined, Undefined)}}
        \cup {[kind |-> "time", time |-> x] : x \in TimeObjects}
        \cup {[kind |-> "padZero", num |-> x] : x \in PadInputs}
        \cup {[kind |-> "isoDate", date |-> x, tuple |-> tuple] :
                 x \in ISODateStrings,
                 tuple \in {<<2024, 3, 1>>, <<2024, 12, 31>>}}

InitText == InitProgram /\ input \in TextInputs

NextText ==
    \/ (input.kind = "timeString" /\ TimeStringToTime(input.timeString))
    \/ (input.kind = "time" /\ TimeToTimeString(input.time))
    \/ (input.kind = "padZero" /\ PadZero(input.num))
    \/ (input.kind = "isoDate" /\ FromDateTupleAndTime(input.tuple, Undefined))
    \/ (input.kind = "isoDate" /\ IsInGivenDate(input.date))
    \/ (input.kind = "dateString" /\ ConstructFromString(input.date, input.config))
    \/ (input.kind = "timePair" /\ IsSameTimeString(input.t1, input.t2))

SpecText == InitText /\ [][NextText]_vars

----------------------------------------------------------------------------
(* SpecClock: one instance at a local time of day, then its display time *)

ClockMinutes == {0, 9, 10, 59}

ClockSeconds == {0, 9, 59}

ClockConfigs ==
    {Config(Undefined, Undefined, Undefined, Undefined, use12HourFormat, showSeconds) :
        use12HourFormat \in {Undefined, Bool(TRUE), Bool(FALSE)},
        showSeconds \in {Undefined, Bool(TRUE), Bool(FALSE)}}

ClockInputs ==
    {[kind |-> "clock", time |-> <<h, m, s>>, config |-> config] :
        h \in 0..23, m \in ClockMinutes, s \in ClockSeconds,
        config \in ClockConfigs}

InitClock == InitProgram /\ input \in ClockInputs

\* new DateHelper(+new Date(2024, 2, 1, h, m, s), config)
ConstructAtTime ==
    Construct(Num(AddMs(NewDate(2024, 2, 1, input.time[1], input.time[2]),
                        input.time[3] * 1000)),
              input.config)

NextClock ==
    \/ ConstructAtTime
    \/ GetDisplayTime

SpecClock == InitClock /\ [][NextClock]_vars

----------------------------------------------------------------------------
(* SpecCompare: two instances compared; the month arithmetic *)

CompareDates ==
    {<<2023, 3, 1>>, <<2023, 12, 31>>, <<2024, 1, 1>>, <<2024, 2, 29>>,
     <<2024, 3, 1>>, <<2024, 3, 31>>}

CompareTimes ==
    {TimeObj(Num(0), Num(0)), TimeObj(Num(12), Num(0)),
     TimeObj(Num(23), Num(59))}

CompareYears == {0, 1, 1999, 2000, 2024, 9999}

CompareInputs ==
    {[kind |-> "pair", a |-> a, b |-> b] :
        a \in CompareDates \X CompareTimes, b \in CompareDates \X CompareTimes}
      \cup {[kind |-> "monthYear", month |-> m, year |-> y] :
               m \in 1..12, y \in CompareYears}

InitCompare == InitProgram /\ input \in CompareInputs

NextCompare ==
    \/ (input.kind = "pair" /\ FromDateTupleAndTime(input.a[1], input.a[2]))
    \/ (input.kind = "pair" /\ IsSameDay(input.b[1], input.b[2]))
    \/ (input.kind = "pair" /\ StaticIsSameDay(input.b[1], input.b[2]))
    \/ (input.kind = "pair" /\ IsSameMonth(input.b[1], input.b[2]))
    \/ (input.kind = "pair" /\ IsDayBefore(input.b[1], input.b[2]))
    \/ (input.kind = "pair" /\ IsDayAfter(input.b[1], input.b[2]))
    \/ (input.kind = "monthYear"
           /\ FindPreviousMonthYear(input.month, input.year))
    \/ (input.kind = "monthYear" /\ FindNextMonthYear(input.month, input.year))

SpecCompare == InitCompare /\ [][NextCompare]_vars

----------------------------------------------------------------------------
(* SpecInstant: one instance built from a timestamp, then derived from *)

InstantYears == {50, 99, 100, 2005, 2024}

InstantDates == {<<1, 1>>, <<2, 28>>, <<12, 31>>}

\* milliseconds into the UTC day: the ends of the first minute, 12:34:56.789
\* and the last millisecond
InstantMs == {0, 1, 59999, 60000, 45296789, 86399999}

InstantConfigs ==
    {EmptyConfig,
     Config(Undefined, Bool(TRUE), Undefined, Undefined, Undefined, Undefined),
     Config(Str("th"), Bool(FALSE), Bool(TRUE), Bool(TRUE), Bool(TRUE), Bool(TRUE))}

InstantInputs ==
    {[kind |-> "instant",
      x |-> Instant(DaysFromCivil(y, md[1], md[2]), ms),
      config |-> config] :
        y \in InstantYears, md \in InstantDates, ms \in InstantMs,
        config \in InstantConfigs}

InitInstant == InitProgram /\ input \in InstantInputs

\* new DateHelper(x, config) for the timestamp and configuration of the input
ConstructInput == Construct(Num(input.x), input.config)

\* a string no date can be read from
NotADate == <<"n", "o", "n", "e">>

\* the offsets getInstanceWithOffset is given: left out, none, one hour back
InstantOffsets == {Undefined, Num(0), Num(-MS_PER_HOUR)}

NextInstant ==
    \/ ConstructInput
    \/ RoundTrip
    \/ GetYesterday
    \/ ToDateTuple
    \/ \E tuple \in {Null, DateTupleOf(toDateTuple(self))} : FromDateTuple(tuple)
    \/ \E date \in {toISODate(self), NotADate}, offset \in InstantOffsets :
           /\ Len(date) = 10 \/ date = NotADate
           /\ GetInstanceWithOffset(date, offset)

SpecInstant == InitInstant /\ [][NextInstant]_vars

----------------------------------------------------------------------------
(* SpecMidnight: the clock runs from 23:59:45 on 31 December 2024, local *)

\* 2024-12-31T23:59:45 local time
MidnightStart == AddMs(NewDate(2024, 11, 31, 23, 59), 45000)

MidnightEnd == AddMs(MidnightStart, MaxTicks * TickMs)

\* where an instance lies, in milliseconds after MidnightStart: a day and
\* half a day before, at it, 5 seconds after, 20 seconds after (00:00:05),
\* 50 seconds after, and a day after
MidnightOffsets ==
    {-ONE_DAY_IN_MILLISECONDS, -12 * MS_PER_HOUR, 0, 5000, 20000, 50000,
     ONE_DAY_IN_MILLISECONDS}

MidnightInputs == {[kind |-> "near", offset |-> d] : d \in MidnightOffsets}

InitMidnight ==
    /\ tz \in TZOffsets
    /\ now = MidnightStart
    /\ CURRENT_MONTH = getMonth(now) + 1
    /\ self = NewDateHelper(Undefined, EmptyConfig)
    /\ made = [op |-> "new", x |-> Undefined, config |-> EmptyConfig]
    /\ momentLocale = "en"
    /\ call = [op |-> "none"]
    /\ input \in MidnightInputs

\* the host clock advances towards and past midnight
TickPastMidnight ==
    /\ Before(now, MidnightEnd)
    /\ now' = AddMs(now, TickMs)
    /\ call' = [op |-> "tick"]
    /\ UNCHANGED <<tz, CURRENT_MONTH, self, made, momentLocale, input>>

\* new DateHelper(x) for the timestamp of the input
ConstructNear == Construct(Num(AddMs(MidnightStart, input.offset)), EmptyConfig)

NextMidnight ==
    \/ TickPastMidnight
    \/ ConstructNear
    \/ IsPastDay(MidnightEnd)
    \/ ReadCurrentMonth
    \/ ReadCurrentYear

SpecMidnight == InitMidnight /\ [][NextMidnight]_vars

----------------------------------------------------------------------------
(* SpecHandle: an instance written to through its getDate() handle *)

HandleHours == {0, 9, 23}

HandleMinutes == {0, 59}

HandleInputs ==
    {[kind |-> "handle", x |-> Instant(DaysFromCivil(2024, 3, 1), ms),
      config |-> EmptyConfig, hours |-> h, min |-> m] :
        ms \in InstantMs, h \in HandleHours, m \in HandleMinutes}

InitHandle == InitProgram /\ input \in HandleInputs

NextHandle ==
    \/ ConstructInput
    \/ SetHoursThroughGetDate(input.hours, input.min)
    \/ ToDateTuple
    \/ ToTimeObject
    \/ GetDisplayTime

SpecHandle == InitHandle /\ [][NextHandle]_vars

----------------------------------------------------------------------------
(* Claims C1 - C10 *)

\* n in 0..99 as two decimal digits
TwoDigits(n) == <<DigitChars[(n \div 10) + 1], DigitChars[(n % 10) + 1]>>

\* the last n characters of s
LastChars(s, n) == SubSeq(s, Len(s) - n + 1, Len(s))

\* the local calendar date of self
SelfYear == CivilFromDays(LocalTime(self.date).day).year

SelfMonth == CivilFromDays(LocalTime(self.date).day).month

SelfDay == CivilFromDays(LocalTime(self.date).day).day

(* C1: for every valid calendar date [y, m, d] with y in 0..9999,          *)
(* fromDateTupleAndTime([y, m, d]).toDateTuple() is [y, m, d].  The code   *)
(* breaks this for the years 0..99, which new Date(y, ...) takes as        *)
(* 1900 + y.                                                               *)
C1_TupleRoundTrip ==
    (made.op = "fromDateTupleAndTime" /\ call.op = "toDateTuple")
        => call.res = made.tuple

(* C2: getDaysCountInMonth() is the Gregorian length of the instance's     *)
(* local month: February has 29 days exactly when the year is divisible by *)
(* 4 and (not by 100 or by 400), else 28; April, June, September, November *)
(* have 30; every other month has 31.  The length is also the distance     *)
(* from the first of the month to the first of the next.                   *)
C2_DaysCountInMonth ==
    call.op = "getDaysCountInMonth" =>
        /\ call.res = GregorianDaysInMonth(SelfYear, SelfMonth)
        /\ call.res = DaysFromCivil(IF SelfMonth = 12 THEN SelfYear + 1 ELSE SelfYear,
                                    IF SelfMonth = 12 THEN 1 ELSE SelfMonth + 1, 1)
                        - DaysFromCivil(SelfYear, SelfMonth, 1)
        /\ (SelfMonth = 2 /\ SelfYear = 2000) => call.res = 29
        /\ (SelfMonth = 2 /\ SelfYear = 1900) => call.res = 28
        /\ (SelfMonth = 2 /\ SelfYear = 2024) => call.res = 29
        /\ (SelfMonth = 2 /\ SelfYear = 2023) => call.res = 28

\* February of the century leap year 2000 was asked for and has 29 days
C2_Witness ==
    /\ call.op = "getDaysCountInMonth"
    /\ made.op = "fromDateTupleAndTime"
    /\ SelfYear = 2000
    /\ SelfMonth = 2
    /\ call.res = 29

\* the full month name of 1-based month m in the language table of lang
FullMonthName(lang, m) == IF lang = "th" THEN TH_MONTHS[m] ELSE EN_MONTHS[m]

\* the instance was built by the constructor from the input date, local
\* midnight, with no UTC adjustment
BuiltFromInputDate ==
    /\ input.kind = "display"
    /\ made.op = "new"
    /\ made.x # Undefined
    /\ ~Truthy(made.config.isUTC)

(* C3: with useShortText off, getDisplayDate() is the local day of month   *)
(* as two digits, a space, the full month name of the local month in the   *)
(* configured language, a space, and the full era year (the Gregorian      *)
(* year, plus 543 with useBD).  2024-03-01 reads "01 March 2024",          *)
(* "01 March 2567" with useBD, and the Thai name of March with 2567 for    *)
(* lang th and useBD.                                                      *)
C3_DisplayDateFull ==
    (call.op = "getDisplayDate" /\ ~self.useShortText) =>
        /\ call.res = TwoDigits(SelfDay) \o <<" ">>
                        \o FullMonthName(self.defaultLang, SelfMonth) \o <<" ">>
                        \o NumToStr(IF self.useBD THEN SelfYear + 543 ELSE SelfYear)
        /\ (BuiltFromInputDate /\ input.tuple = <<2024, 3, 1>>) =>
              call.res =
                  IF self.defaultLang = "th" /\ self.useBD
                  THEN <<"0", "1", " ", "M", "i", "n", "a", "k", "h", "o", "m", " ", "2", "5", "6", "7">>
                  ELSE IF self.defaultLang = "th"
                  THEN <<"0", "1", " ", "M", "i", "n", "a", "k", "h", "o", "m", " ", "2", "0", "2", "4">>
                  ELSE IF self.useBD
                  THEN <<"0", "1", " ", "M", "a", "r", "c", "h", " ", "2", "5", "6", "7">>
                  ELSE <<"0", "1", " ", "M", "a", "r", "c", "h", " ", "2", "0", "2", "4">>

\* the Thai Buddhist-Era display of 2024-03-01 was produced
C3_Witness ==
    /\ call.op = "getDisplayDate"
    /\ BuiltFromInputDate
    /\ input.tuple = <<2024, 3, 1>>
    /\ self.defaultLang = "th"
    /\ self.useBD
    /\ ~self.useShortText
    /\ call.res = <<"0", "1", " ", "M", "i", "n", "a", "k", "h", "o", "m", " ", "2", "5", "6", "7">>

(* C4: for every instance and configuration getADYear() is the local       *)
(* Gregorian year and getBDYear() is getADYear() + 543, whatever useBD is; *)
(* useBD only selects which of the two getDisplayDate() shows.             *)
C4_EraYears ==
    /\ call.op = "getADYear" =>
          /\ call.res = SelfYear
          /\ BuiltFromInputDate => call.res = input.tuple[1]
    /\ call.op = "getBDYear" =>
          /\ call.res = getADYear(self) + 543
          /\ BuiltFromInputDate => call.res = input.tuple[1] + 543
    /\ (call.op = "getDisplayDate" /\ ~self.useShortText) =>
          LET shown == NumToStr(IF self.useBD THEN getBDYear(self)
                                ELSE getADYear(self))
          IN  LastChars(call.res, Len(shown) + 1) = <<" ">> \o shown

\* getBDYear() was called on an instance configured for the Gregorian era
\* and gave the Buddhist-Era year
C4_Witness ==
    /\ call.op = "getBDYear"
    /\ BuiltFromInputDate
    /\ made.config.useBD = Bool(FALSE)
    /\ input.tuple[1] = 2024
    /\ call.res = 2567

\* s is H:MM or HH:MM, all digits, hour 0..23 and minute 0..59
IsTimeString(s) ==
    /\ Len(s) \in {4, 5}
    /\ s[Len(s) - 2] = ":"
    /\ AllDigits(SubSeq(s, 1, Len(s) - 3))
    /\ AllDigits(SubSeq(s, Len(s) - 1, Len(s)))
    /\ DigitsToNat(SubSeq(s, 1, Len(s) - 3)) <= 23
    /\ DigitsToNat(SubSeq(s, Len(s) - 1, Len(s))) <= 59

(* C5: timeStringToTime(s) throws for every s that is not H:MM or HH:MM    *)
(* with hour 0..23 and minute 0..59, and for every accepted s returns      *)
(* {hour, minute} with the two segments' values.  The code accepts more:   *)
(* extra segments, empty segments, one-digit minutes, signs and spaces.    *)
C5_TimeStringToTimeStrict ==
    call.op = "timeStringToTime" =>
        IF IsTimeString(call.timeString)
        THEN LET s == call.timeString
             IN  /\ ~call.res.threw
                 /\ call.res.value =
                        TimeObj(Num(DigitsToNat(SubSeq(s, 1, Len(s) - 3))),
                                Num(DigitsToNat(SubSeq(s, Len(s) - 1, Len(s)))))
        ELSE call.res.threw

\* the number a Time field stands for: null is 0
FieldValue(x) == IF x = Null THEN 0 ELSE x.v

(* C6: timeToTimeString always gives two zero-padded two-digit fields      *)
(* joined by ":", a null hour or minute counting as 0;                     *)
(* timeStringToTime(timeToTimeString(t)) = t for every t with hour 0..23   *)
(* and minute 0..59; and timeToTimeString(timeStringToTime(s)) = s for     *)
(* every time string s of the form HH:MM.                                  *)
C6_TimeStringRoundTrip ==
    /\ call.op = "timeToTimeString" =>
          LET h == FieldValue(call.time.hour)
              m == FieldValue(call.time.minute)
          IN  /\ call.res = TwoDigits(h) \o <<":">> \o TwoDigits(m)
              /\ timeStringToTime(call.res) = Return(TimeObj(Num(h), Num(m)))
              /\ (call.time.hour # Null /\ call.time.minute # Null) =>
                    timeStringToTime(call.res) = Return(call.time)
    /\ (/\ call.op = "timeStringToTime"
        /\ Len(call.timeString) = 5
        /\ IsTimeString(call.timeString)) =>
          /\ ~call.res.threw
          /\ timeToTimeString(call.res.value) = call.timeString

\* the string "23:59" was parsed and formats back to itself
C6_Witness ==
    /\ call.op = "timeStringToTime"
    /\ call.timeString = <<"2", "3", ":", "5", "9">>
    /\ ~call.res.threw
    /\ call.res.value = TimeObj(Num(23), Num(59))
    /\ timeToTimeString(call.res.value) = call.timeString

(* C7: padZero(v) puts a single "0" before v exactly when the numeric      *)
(* value of v is in 0..9 and returns v unchanged for every other numeric   *)
(* value (10 and above, negative) and for every non-numeric v.  The code   *)
(* pads negative values too: padZero(-1) is "0-1".                         *)
C7_PadZeroRange ==
    call.op = "padZero" =>
        LET n == ToNumber(call.num)
        IN  IF ~IsNaN(n) /\ 0 <= n.v /\ n.v <= 9
            THEN call.res = Str(<<"0">> \o JSString(call.num))
            ELSE call.res = call.num

\* date is four digits, "-", two digits, "-", two digits
IsYYYYMMDD(date) ==
    /\ Len(date) = 10
    /\ AllDigits(SubSeq(date, 1, 4))
    /\ SubSeq(date, 5, 5) = <<"-">>
    /\ AllDigits(SubSeq(date, 6, 7))
    /\ SubSeq(date, 8, 8) = <<"-">>
    /\ AllDigits(SubSeq(date, 9, 10))

(* C8: isInGivenDate(s, e) throws for every s that is not exactly four     *)
(* digits, "-", two digits, "-", two digits, and for every s of that form  *)
(* returns true exactly when the year, month and day numbers in s equal    *)
(* e.toDateTuple() field by field.                                         *)
C8_IsInGivenDate ==
    call.op = "isInGivenDate" =>
        IF IsYYYYMMDD(call.date)
        THEN /\ ~call.res.threw
             /\ call.res.value =
                    (/\ DigitsToNat(SubSeq(call.date, 1, 4)) = SelfYear
                     /\ DigitsToNat(SubSeq(call.date, 6, 7)) = SelfMonth
                     /\ DigitsToNat(SubSeq(call.date, 9, 10)) = SelfDay)
        ELSE call.res.threw

\* a strict date string naming the instance's own date was accepted
C8_Witness ==
    /\ call.op = "isInGivenDate"
    /\ made.op = "fromDateTupleAndTime"
    /\ made.tuple = <<2024, 12, 31>>
    /\ call.date = <<"2", "0", "2", "4", "-", "1", "2", "-", "3", "1">>
    /\ call.res = Return(TRUE)

(* C9: deltaMinutes is antisymmetric at every millisecond difference:      *)
(* deltaMinutes(a, b) = -deltaMinutes(b, a), and deltaMinutes(a, a) = 0.   *)
(* The code rounds a tie up in both directions: 30 seconds apart gives 1   *)
(* one way and 0 the other.                                                *)
C9_DeltaMinutesAntisymmetric ==
    call.op = "deltaMinutes" =>
        LET other == NewDateHelper(Num(call.other), EmptyConfig)
        IN  /\ call.res = -deltaMinutes(other, self)
            /\ call.other = self.date => call.res = 0

\* the whole-minute delta of getTimeRelativeToNow: deltaMinutes(now, self)
DeltaToNow == deltaMinutes(NewDateHelper(Undefined, EmptyConfig), self)

\* the "ago" phrase of the language for count n of a unit
AgoPhrase(lang, unit, n) ==
    IF lang = "th"
    THEN CASE unit = "minute" -> TH_minute(n)
           [] unit = "hour" -> TH_hour(n)
           [] unit = "day" -> TH_day(n)
    ELSE NumToStr(n) \o <<" ">>
            \o (CASE unit = "minute" -> <<"m", "i", "n", "u", "t", "e">>
                  [] unit = "hour" -> <<"h", "o", "u", "r">>
                  [] unit = "day" -> <<"d", "a", "y">>)
            \o (IF n > 1 THEN <<"s">> ELSE <<>>)
            \o <<" ", "a", "g", "o">>

\* self lies less than ms milliseconds before now, or after it
YoungerThan(ms) == Before(AddMs(now, -ms), self.date)

----------------------------------------------------------------------------
(* Claims C11 - C20 *)

\* the instance was built by the constructor for the input's time of day
BuiltFromInputTime ==
    /\ input.kind = "clock"
    /\ made.op = "new"
    /\ made.x # Undefined

\* the hour a 12-hour clock shows for hour h of the day
TwelveHour(h) == IF h % 12 = 0 THEN 12 ELSE h % 12

(* C11: getDisplayTime() for local time h:m:s is, in 24-hour mode, the     *)
(* two-digit hour 00..23, ":", the two-digit minute, with no suffix; in    *)
(* 12-hour mode the hour shown is h mod 12 with 0 replaced by 12, always   *)
(* in 1..12, and the string ends with " AM" when h < 12 and " PM" when     *)
(* h >= 12; ":" and the two-digit seconds follow the minute exactly when   *)
(* showSeconds is set, before any suffix.                                  *)
C11_DisplayTime ==
    (call.op = "getDisplayTime" /\ BuiltFromInputTime) =>
        LET h == input.time[1]
            m == input.time[2]
            s == input.time[3]
            twelve == input.config.use12HourFormat = Bool(TRUE)
            secs == input.config.showSeconds = Bool(TRUE)
        IN  /\ TwelveHour(h) \in 1..12
            /\ call.res =
                 (IF twelve THEN TwoDigits(TwelveHour(h)) ELSE TwoDigits(h))
                   \o <<":">> \o TwoDigits(m)
                   \o (IF secs THEN <<":">> \o TwoDigits(s) ELSE <<>>)
                   \o (IF ~twelve THEN <<>>
                       ELSE IF h < 12 THEN <<" ", "A", "M">>
                       ELSE <<" ", "P", "M">>)

\* midnight and noon were shown on a 12-hour clock with seconds
C11_Witness ==
    /\ call.op = "getDisplayTime"
    /\ BuiltFromInputTime
    /\ \/ /\ input.time = <<0, 9, 59>>
          /\ call.res = <<"1", "2", ":", "0", "9", ":", "5", "9", " ", "A", "M">>
       \/ /\ input.time = <<12, 0, 0>>
          /\ input.config.showSeconds = Undefined
          /\ call.res = <<"1", "2", ":", "0", "0", " ", "P", "M">>

\* the string is empty or white space only
IsBlank(s) == \A i \in 1..Len(s) : IsSpace(s[i])

\* the date strings of the input that name an instant: an ISO calendar
\* date, or a decimal count of milliseconds
NamesAnInstant(s) ==
    s \in {<<"2", "0", "2", "4", "-", "0", "3", "-", "0", "1">>, <<"0">>,
           <<"1", "0", "0", "0">>, <<"2", "0", "2", "4">>}

(* C12: new DateHelper(s) with a string s throws whenever s cannot be      *)
(* parsed into a valid instant, the empty string and white-space-only      *)
(* strings included; no default instant is substituted.  The code breaks   *)
(* this: +s is 0 for an empty or blank string, so the instance holds the   *)
(* epoch.                                                                  *)
C12_ConstructionFailFast ==
    (call.op = "new" /\ (IsBlank(call.x.v) \/ ~NamesAnInstant(call.x.v)))
        => call.res.threw

\* the configuration fields of self are those its constructing call set
ConfigAsConstructed ==
    LET config == IF made.op = "new" THEN made.config ELSE EmptyConfig
        Given(f) == IF config[f].t = "boolean" THEN config[f].v ELSE FALSE
    IN  /\ self.defaultLang = (IF config.lang.t = "string" THEN config.lang.v
                               ELSE "en")
        /\ self.useShortText = Given("useShortText")
        /\ self.useBD = Given("useBD")
        /\ self.use12HourFormat = Given("use12HourFormat")
        /\ self.showSeconds = Given("showSeconds")

\* self was built from a timestamp with no UTC adjustment
BuiltFromTimestamp ==
    /\ made.op = "new"
    /\ made.x # Undefined
    /\ ~Truthy(made.config.isUTC)

(* C13: an instance is immutable: no call of an instance or static         *)
(* operation (comparison, derivation, formatting, getYesterday,            *)
(* isTimePastForDate, deltaMinutes) changes toMs() of the receiver or of   *)
(* an instance passed as argument, and the configuration fields keep the   *)
(* values construction gave them.                                          *)
C13_InstancesImmutable ==
    /\ [][call'.op \notin {"none", "new"} => self' = self]_vars
    /\ [](ConfigAsConstructed)
    /\ []((BuiltFromTimestamp /\ made.x.t = "number") => toMs(self) = made.x.v)

\* isTimePastForDate was asked about 23:59 on the day of an instance that
\* lies at another hour of that day and still does
C13_Witness ==
    /\ call.op = "isTimePastForDate"
    /\ ~call.omitted
    /\ call.time = TimeObj(Num(23), Num(59))
    /\ BuiltFromTimestamp
    /\ made.x.t = "number"
    /\ toMs(self) = made.x.v
    /\ getHours(self.date) # 23

(* C14: the library keeps no shared mutable state: every process-wide      *)
(* value it touches, the global moment locale included, is after any       *)
(* sequence of constructor calls and operations what it was before, so a   *)
(* result on one instance does not depend on the instances constructed     *)
(* earlier.  The code breaks this: constructing an instance with lang th   *)
(* sets the global moment locale, and toMoment() of every later instance   *)
(* is in that locale.                                                      *)
C14_NoSharedState ==
    /\ momentLocale = "en"
    /\ (call.op = "toMoment" /\ self.defaultLang = "en")
          => call.res.locale = "en"

\* the instant one whole day before a
DayBefore(a) == Instant(a.day - 1, a.ms)

(* C15: getYesterday() subtracts a fixed 86,400,000 ms: e.getYesterday()   *)
(* is at e.toMs() - 86,400,000, e.getYesterday().getYesterday() at         *)
(* e.toMs() - 2 * 86,400,000, each a new instance, and e is unchanged.     *)
C15_GetYesterday ==
    /\ [](call.op = "getYesterday" =>
            /\ toMs(call.res) = DayBefore(toMs(self))
            /\ toMs(call.again) = DayBefore(DayBefore(toMs(self)))
            /\ ONE_DAY_IN_MILLISECONDS = 86400000
            /\ call.res # self
            /\ call.again # call.res)
    /\ [][call'.op = "getYesterday" => self' = self]_vars

\* yesterday of an instance made for a given timestamp was taken
C15_Witness ==
    /\ call.op = "getYesterday"
    /\ BuiltFromTimestamp
    /\ made.x.t = "number"
    /\ toMs(self) = made.x.v
    /\ toMs(call.res).day = made.x.v.day - 1
    /\ toMs(call.again).day = made.x.v.day - 2

(* C19: isTimePastForDate(time, date) is true exactly when the moment at   *)
(* time.hour:time.minute:00.000 (a missing field counts as 0) of date's    *)
(* local calendar day is strictly earlier than the current wall clock,     *)
(* for past days, today and future days alike; with date omitted the day   *)
(* is that of the current moment.                                          *)
C19_IsTimePastForDate ==
    call.op = "isTimePastForDate" =>
        LET day == IF call.omitted THEN LocalTime(now).day
                   ELSE LocalTime(self.date).day
            ofDay == (FieldValue(call.time.hour) * 60
                          + FieldValue(call.time.minute)) * MS_PER_MINUTE
            clock == LocalTime(now)
        IN  call.res = (\/ day < clock.day
                        \/ (day = clock.day /\ ofDay < clock.ms))

\* asked about the local time of the start on today's date: not past at the
\* start itself, past half a minute later; and about 23:59 on a past day
C19_Witness ==
    /\ call.op = "isTimePastForDate"
    /\ ~call.omitted
    /\ \/ /\ LocalTime(self.date).day = LocalTime(now).day
          /\ call.time = TimeObj(Num(12), Num(0))
          /\ tz = 0
          /\ now = AddMs(StartNow, TickMs)
          /\ call.res
       \/ /\ LocalTime(self.date).day < LocalTime(now).day
          /\ call.time = TimeObj(Num(23), Num(59))
          /\ call.res
          /\ tz = 420

\* self was built from the first date and time of the input pair
PairBuilt ==
    /\ input.kind = "pair"
    /\ made.op = "fromDateTupleAndTime"
    /\ made.tuple = input.a[1]
    /\ made.time = input.a[2]

\* the day number of the calendar date of a tuple
DayNumber(tuple) == DaysFromCivil(tuple[1], tuple[2], tuple[3])

(* C16: day-level ordering is a strict trichotomy: for two instances a and *)
(* b exactly one of a.isSameDay(b), a.isDayBefore(b), a.isDayAfter(b) is   *)
(* true; isDayBefore and isDayAfter are both false when a and b share a    *)
(* local calendar day, whatever their times; a.isDayBefore(b) equals       *)
(* b.isDayAfter(a).                                                        *)
C16_DayTrichotomy ==
    (PairBuilt /\ call.op \in {"isSameDay", "isDayBefore", "isDayAfter"}) =>
        LET a == self
            b == call.other
            dayA == DayNumber(input.a[1])
            dayB == DayNumber(input.b[1])
            same == isSameDay(a, b)
            before == isDayBefore(a, b)
            after == isDayAfter(a, b)
        IN  /\ \/ (same /\ ~before /\ ~after)
               \/ (~same /\ before /\ ~after)
               \/ (~same /\ ~before /\ after)
            /\ dayA = dayB => (~before /\ ~after)
            /\ before = isDayAfter(b, a)
            /\ after = isDayBefore(b, a)
            /\ call.op = "isSameDay" => call.res = (dayA = dayB)
            /\ call.op = "isDayBefore" =>
                  (call.res = (dayA < dayB) /\ call.swapped = (dayB < dayA))
            /\ call.op = "isDayAfter" =>
                  (call.res = (dayA > dayB) /\ call.swapped = (dayB > dayA))

\* isDayBefore was asked of two instants of one day, the first the earlier
C16_Witness ==
    /\ PairBuilt
    /\ call.op = "isDayBefore"
    /\ input.a[1] = input.b[1]
    /\ Before(toMs(self), toMs(call.other))
    /\ ~call.res
    /\ ~call.swapped

(* C17: the static DateHelper.isSameDay(a, b), a.isSameDay(b) and          *)
(* b.isSameDay(a) return the same boolean, true exactly when a and b have  *)
(* equal local year, month and day; so isSameDay(a, b) implies             *)
(* a.isSameMonth(b), and isSameMonth is true exactly when local year and   *)
(* month are equal.                                                        *)
C17_SameDayAgree ==
    (PairBuilt /\ call.op \in {"isSameDay", "DateHelper.isSameDay", "isSameMonth"}) =>
        LET a == self
            b == call.other
            ta == input.a[1]
            tb == input.b[1]
        IN  /\ DateHelper_isSameDay(a, b) = isSameDay(a, b)
            /\ DateHelper_isSameDay(a, b) = isSameDay(b, a)
            /\ DateHelper_isSameDay(a, b) => isSameMonth(a, b)
            /\ call.op \in {"isSameDay", "DateHelper.isSameDay"} =>
                  (call.res = (ta = tb) /\ call.swapped = (ta = tb))
            /\ call.op = "isSameMonth" =>
                  /\ call.res = (ta[1] = tb[1] /\ ta[2] = tb[2])
                  /\ call.swapped = call.res

\* the same month and day of two different years was compared
C17_Witness ==
    /\ PairBuilt
    /\ call.op = "isSameDay"
    /\ input.a[1] = <<2023, 3, 1>>
    /\ input.b[1] = <<2024, 3, 1>>
    /\ ~call.res

(* C18: for every month m in 1..12 and year y, findPreviousMonthYear(m, y) *)
(* is {month: 12, year: y-1} when m = 1 and {month: m-1, year: y}          *)
(* otherwise; findNextMonthYear(m, y) is {month: 1, year: y+1} when m = 12 *)
(* and {month: m+1, year: y} otherwise; the month returned is in 1..12;    *)
(* each function undoes the other.                                         *)
C18_MonthRollover ==
    /\ call.op = "findPreviousMonthYear" =>
          /\ call.res = (IF call.month = 1
                         THEN [month |-> 12, year |-> call.year - 1]
                         ELSE [month |-> call.month - 1, year |-> call.year])
          /\ call.res.month \in 1..12
          /\ call.back = [month |-> call.month, year |-> call.year]
    /\ call.op = "findNextMonthYear" =>
          /\ call.res = (IF call.month = 12
                         THEN [month |-> 1, year |-> call.year + 1]
                         ELSE [month |-> call.month + 1, year |-> call.year])
          /\ call.res.month \in 1..12
          /\ call.back = [month |-> call.month, year |-> call.year]

\* the month before January 2000 was taken
C18_Witness ==
    /\ call.op = "findPreviousMonthYear"
    /\ call.month = 1
    /\ call.year = 2000
    /\ call.res = [month |-> 12, year |-> 1999]
    /\ call.back = [month |-> 1, year |-> 2000]

(* C20: for every instance e, e.toISODate() has the strict form YYYY-MM-DD *)
(* (4 year digits, 2 month digits, 2 day digits) of e's local date, so     *)
(* DateHelper.isInGivenDate(e.toISODate(), e) returns true and does not    *)
(* throw.  The code breaks this for a year below 1000, which it writes     *)
(* with fewer than 4 digits.                                               *)
C20_ISODateStrict ==
    call.op = "toISODate" =>
        /\ IsYYYYMMDD(call.res)
        /\ call.given = Return(TRUE)

----------------------------------------------------------------------------
(* Claims C21 - C30 *)

\* the start of the minute instant a lies in (host offsets are whole minutes)
StartOfMinute(a) == Instant(a.day, a.ms - (a.ms % MS_PER_MINUTE))

(* C21: for every instance e,                                              *)
(* fromDateTupleAndTime(e.toDateTuple(), e.toTimeObject()).toMs() is       *)
(* e.toMs() truncated to the start of its minute, and a second round trip  *)
(* changes nothing further.  The code breaks this for an instance whose    *)
(* local year is in 0..99, which comes back 1900 years later.              *)
C21_LossyRoundTrip ==
    call.op = "roundTrip" =>
        /\ toMs(call.res) = StartOfMinute(toMs(self))
        /\ toMs(call.again) = toMs(call.res)

(* C22: every failure of timeStringToTime, isInGivenDate and               *)
(* isSameTimeString reaches the caller as an error of the one FormatError  *)
(* kind.  The code breaks this: isInGivenDate and isSameTimeString throw a *)
(* plain Error, and where error.ts is not loaded timeStringToTime raises a *)
(* ReferenceError.                                                         *)
C22_FormatErrorOnly ==
    (call.op \in {"timeStringToTime", "isInGivenDate", "isSameTimeString"}
        /\ call.res.threw) => call.res.error = "FormatError"

\* the time a string of digits, ":" and digits denotes, hour 0..23 and
\* minute 0..59; Null where it denotes none
DenotedTime(s) ==
    LET parts == Split(s, ":")
    IN  IF /\ Len(parts) = 2
           /\ Len(parts[1]) \in {1, 2} /\ AllDigits(parts[1])
           /\ Len(parts[2]) \in {1, 2} /\ AllDigits(parts[2])
           /\ DigitsToNat(parts[1]) \in 0..23
           /\ DigitsToNat(parts[2]) \in 0..59
        THEN TimeObj(Num(DigitsToNat(parts[1])), Num(DigitsToNat(parts[2])))
        ELSE Null

(* C23: isSameTimeString(t1, t2) throws whenever either argument is not    *)
(* parseable as an hour:minute time string, and for two parseable          *)
(* arguments is true exactly when they denote the same hour and minute     *)
(* ("9:05" and "09:05" are the same time).  The code breaks this: it       *)
(* compares the text of the segments and throws only when a ":" is         *)
(* missing.                                                                *)
C23_SameTimeString ==
    call.op = "isSameTimeString" =>
        IF DenotedTime(call.t1) = Null \/ DenotedTime(call.t2) = Null
        THEN call.res.threw
        ELSE call.res = Return(DenotedTime(call.t1) = DenotedTime(call.t2))

\* instant a less the host's getTimezoneOffset() minutes, which is minus tz
LessHostOffset(a) == Normalise(a.day, a.ms + tz * MS_PER_MINUTE)

(* C24: the UTC adjustment is applied once, at construction:               *)
(* new DateHelper(x, {isUTC: true}).toMs() is the instant of x minus the   *)
(* host's getTimezoneOffset() in milliseconds; with isUTC false or absent  *)
(* toMs() is the instant of x; no later operation on the instance or on    *)
(* an instance derived from it shifts the instant again.                   *)
C24_UTCAdjustedOnce ==
    /\ []((made.op = "new" /\ made.x.t = "number") =>
            toMs(self) = (IF made.config.isUTC = Bool(TRUE)
                          THEN LessHostOffset(made.x.v) ELSE made.x.v))
    /\ [][made' = made => self' = self]_vars
    /\ [](call.op = "getYesterday" => toMs(call.res) = DayBefore(toMs(self)))

\* an instance built with isUTC east of Greenwich lies seven hours after
\* its timestamp, and its yesterday one day before that
C24_Witness ==
    /\ made.op = "new"
    /\ made.x.t = "number"
    /\ made.config.isUTC = Bool(TRUE)
    /\ tz = 420
    /\ toMs(self) = AddMs(made.x.v, 7 * MS_PER_HOUR)
    /\ call.op = "getYesterday"
    /\ toMs(call.res) = DayBefore(toMs(self))

(* C25: isPastDay() is true only for an instance whose local calendar day  *)
(* is strictly before the wall clock's day when the call returns, never    *)
(* for an instance on today's date or in the future, also when the clock   *)
(* advances (across midnight) between the reads of now that isToday() and  *)
(* isPast() make.  The code breaks this when midnight passes between the   *)
(* two reads.                                                              *)
C25_PastDayStrict ==
    (call.op = "isPastDay" /\ call.res) =>
        LocalTime(toMs(self)).day < LocalTime(now).day

(* C26: the class-level clock values reflect the wall clock whenever they  *)
(* are read: CURRENT_MONTH is the current local month 1..12 and            *)
(* CURRENT_YEAR() the current year, also after the clock has passed a      *)
(* month or year boundary since the class was loaded.  The code breaks     *)
(* this for CURRENT_MONTH, which is computed once at load.                 *)
C26_ClockValuesCurrent ==
    /\ call.op = "CURRENT_MONTH" =>
          call.res = CivilFromDays(LocalTime(now).day).month
    /\ call.op = "CURRENT_YEAR" =>
          call.res = CivilFromDays(LocalTime(now).day).year

(* C27: getDate() returns the live backing Date, not a copy: every call on *)
(* an instance returns the same object, and after an in-place mutation     *)
(* through that handle toMs(), toDateTuple(), toTimeObject() and the       *)
(* display operations of the instance show the handle's value, while       *)
(* another instance is not affected.                                       *)
C27_GetDateLive ==
    made.op = "getDate().setHours" =>
        LET day == LocalTime(made.before).day
        IN  /\ made.sameObject
            /\ toMs(self) = Normalise(day, (made.hours * 60 + made.min - tz)
                                               * MS_PER_MINUTE)
            /\ toMs(made.other) = made.before
            /\ call.op = "toDateTuple" =>
                  call.res = <<CivilFromDays(day).year, CivilFromDays(day).month,
                               CivilFromDays(day).day>>
            /\ call.op = "toTimeObject" =>
                  call.res = TimeObj(Num(made.hours), Num(made.min))
            /\ call.op = "getDisplayTime" =>
                  call.res = TwoDigits(made.hours) \o <<":">> \o TwoDigits(made.min)

\* an instance at 12:34:56.789 UTC was set to 23:59 through its handle and
\* shows it
C27_Witness ==
    /\ made.op = "getDate().setHours"
    /\ made.before = Instant(DaysFromCivil(2024, 3, 1), 45296789)
    /\ made.hours = 23
    /\ made.min = 59
    /\ toMs(self) # made.before
    /\ call.op = "getDisplayTime"
    /\ call.res = <<"2", "3", ":", "5", "9">>

\* the abbreviated month name of 1-based month m in the table of lang
ShortMonthName(lang, m) ==
    IF lang = "th" THEN TH_MONTHS_ABBR[m] ELSE EN_MONTHS_ABBR[m]

\* the era year getDisplayDate shows for self
SelfEraYear == IF self.useBD THEN SelfYear + 543 ELSE SelfYear

(* C28: with useShortText, getDisplayDate() is the two-digit day, a space, *)
(* the abbreviated month name of the configured language, a space, and the *)
(* era year as exactly two digits (2024 -> "24", 2005 -> "05").  The code  *)
(* breaks this where the last two digits are below 10: it writes year %    *)
(* 100 unpadded.                                                           *)
C28_DisplayDateShort ==
    (call.op = "getDisplayDate" /\ self.useShortText) =>
        call.res = TwoDigits(SelfDay) \o <<" ">>
                     \o ShortMonthName(self.defaultLang, SelfMonth) \o <<" ">>
                     \o TwoDigits(SelfEraYear % 100)

\* the instant Date.parse gives for the date strings of the input that
\* every engine accepts: a year, or a calendar date, at UTC midnight
ParsedInstant(s) ==
    IF s = <<"2", "0", "2", "4">> THEN Instant(DaysFromCivil(2024, 1, 1), 0)
    ELSE IF s = <<"1", "0", "0", "0">> THEN Instant(DaysFromCivil(1000, 1, 1), 0)
    ELSE Instant(DaysFromCivil(2024, 3, 1), 0)

(* C29: the constructor reads its first argument by type: a string that    *)
(* the host date-string parser accepts gives toMs() = Date.parse(s), and   *)
(* is never taken as a count of milliseconds, strings of digits such as    *)
(* "2024" included.  The code breaks this: a string that converts to a     *)
(* number is taken as that many milliseconds since the epoch.              *)
C29_StringsAreParsed ==
    (/\ call.op = "new"
     /\ call.x.v \in {<<"2", "0", "2", "4">>, <<"1", "0", "0", "0">>,
                      <<"2", "0", "2", "4", "-", "0", "3", "-", "0", "1">>}
     /\ ~Truthy(input.config.isUTC)) =>
        /\ ~call.res.threw
        /\ toMs(call.res.value) = ParsedInstant(call.x.v)


\* the configuration an instance has when none was given
IsDefaultConfiguration(e) ==
    /\ e.defaultLang = "en"
    /\ ~e.useShortText
    /\ ~e.useBD
    /\ ~e.use12HourFormat
    /\ ~e.showSeconds

\* the instances the last call returned
DerivedInstances ==
    IF call.op \in {"getYesterday", "roundTrip"} THEN {call.res, call.again}
    ELSE IF /\ call.op \in {"fromDateTuple", "getInstanceWithOffset"}
            /\ ~call.res.threw
            /\ "date" \in DOMAIN call.res.value
         THEN {call.res.value}
         ELSE {}

\* C30: the instances that getYesterday(), fromDateTupleAndTime(),
\* fromDateTuple() and getInstanceWithOffset() return carry the default
\* configuration (language en, full text, Gregorian era, 24-hour, no
\* seconds) whatever the configuration of the instance they were derived
\* from; an instance with another configuration was built by
\* new DateHelper(x, config) or DateHelper.now(config) with a configuration
\* that sets something.
C30_DerivedAreDefault ==
    /\ \A e \in DerivedInstances : IsDefaultConfiguration(e)
    /\ ~IsDefaultConfiguration(self) =>
           (made.op = "new" /\ made.config # EmptyConfig)

\* getYesterday() of an instance configured th, short, BE, 12-hour, seconds
C30_Witness ==
    /\ call.op = "getYesterday"
    /\ self.defaultLang = "th"
    /\ self.useShortText /\ self.useBD /\ self.use12HourFormat
    /\ self.showSeconds
    /\ IsDefaultConfiguration(call.res)

============================================================================
